---- MODULE Spec2Model ----
(***************************************************************************)
(* Production-graph engine of the planner (planner/graph.py): the item and *)
(* recipe node sequences, expand, scale_connected_component, merge_leaves  *)
(* and the adjacency helper, driven by the initial target specification of *)
(* planner/cli.py; and the shell of planner/cli.py around it: the undo     *)
(* stack of by-value snapshots, undo, resume and nodes, with the session   *)
(* serialisation of planner/session.py.                                    *)
(*                                                                         *)
(* Numbers.  Rates and machine counts are Python floats.  A number is a    *)
(* normalised fraction <<n, d>> (d > 0, gcd(n, d) = 1).  Under arith =     *)
(* "float" every product, quotient and sum is rounded to the nearest value *)
(* with MantissaBits significant bits, ties to even, as IEEE-754 does with *)
(* 53 bits; the exponent range is not bounded (no overflow to inf, no      *)
(* underflow to 0).  Under arith = "exact" nothing is rounded.             *)
(*                                                                         *)
(* Item and recipe ids are 0-based as in the source: id k is element k + 1 *)
(* of the TLA+ sequence.                                                   *)
(***************************************************************************)
EXTENDS Integers, Sequences, FiniteSets, TLC

VARIABLES
    item_nodes,      \* GenGraph.item_nodes
    recipe_nodes,    \* GenGraph.recipe_nodes
    prev_items,      \* item_nodes as the last call found them
    prev_recipes,    \* recipe_nodes as the last call found them
    call,            \* the last call: its arguments and what it returned
    pc,              \* "prompt": awaiting a command; "returned": a call has returned
    nscaled,         \* successful scale_connected_component calls so far
    history,         \* main's undo stack of SessionState snapshots
    session_label,   \* main's session_label
    arith            \* "float" or "exact" (see above)

vars == <<item_nodes, recipe_nodes, prev_items, prev_recipes, call, pc, nscaled,
          history, session_label, arith>>

(* ----------------------------- bounds --------------------------------- *)
\* significant bits of the model's floats (53 in CPython)
MantissaBits == 4
\* no expand makes the item sequence longer than this
MaxItems == 4
\* longest id list handed to merge_leaves
MaxIds == 3
\* successful scale_connected_component calls in one run
MaxScales == 1
\* targets on the command line: each leaves room for one expansion
MaxTargets == MaxItems \div 2
\* snapshots on the undo stack beyond which resume is not tried
MaxHistory == 2

(* ----------------------------- numbers -------------------------------- *)
Abs(x) == IF x < 0 THEN 0 - x ELSE x

RECURSIVE Gcd(_, _)
Gcd(a, b) == IF b = 0 THEN a ELSE Gcd(b, a % b)

\* the fraction n / d in lowest terms with a positive denominator (d # 0)
Norm(n, d) ==
    LET g == Gcd(Abs(n), Abs(d))
        s == IF d < 0 THEN 0 - 1 ELSE 1
    IN  <<(s * n) \div g, (s * d) \div g>>

Num(i) == <<i, 1>>
Zero == Num(0)

RLe(a, b) == a[1] * b[2] <= b[1] * a[2]
RLt(a, b) == a[1] * b[2] < b[1] * a[2]

RECURSIVE Pow2(_)
Pow2(k) == IF k = 0 THEN 1 ELSE 2 * Pow2(k - 1)

\* q * 2^k for the k that brings |q| into [2^(p-1), 2^p)
RECURSIVE Scaled(_, _)
Scaled(n, d) ==
    IF n < Pow2(MantissaBits - 1) * d THEN Scaled(2 * n, d)
    ELSE IF n >= Pow2(MantissaBits) * d THEN Scaled(n, 2 * d)
    ELSE <<n, d>>

\* round to nearest, ties to even, at MantissaBits significant bits
Round(q) ==
    IF q[1] = 0 THEN Zero
    ELSE LET n == Abs(q[1])
             d == q[2]
             s == Scaled(n, d)
             m == s[1] \div s[2]
             r == s[1] - m * s[2]
             up == 2 * r > s[2] \/ (2 * r = s[2] /\ m % 2 = 1)
             mm == IF up THEN m + 1 ELSE m
             sign == IF q[1] < 0 THEN 0 - 1 ELSE 1
         IN  Norm(sign * mm * n * s[2], d * s[1])

IsFloat(q) == Round(q) = q

Fl(q) == IF arith = "float" THEN Round(q) ELSE q

\* a * b, a / b (b # 0) and a + b as the interpreter computes them
Mul(a, b) == Fl(Norm(a[1] * b[1], a[2] * b[2]))
Div(a, b) == Fl(Norm(a[1] * b[2], a[2] * b[1]))
Add(a, b) == Fl(Norm(a[1] * b[2] + b[1] * a[2], a[2] * b[2]))

(* ----------------------------- catalog -------------------------------- *)
\* models.Recipe: ordered (name, rate) inputs and outputs, machine data
Recipe(ins, outs, machine_name, machine_class, recipe_id) ==
    [ins |-> ins, outs |-> outs, machine_name |-> machine_name,
     machine_class |-> machine_class, recipe_id |-> recipe_id]

\* the recipes a run may hand to expand: single output, byproduct before the
\* matched slot, an input name repeated in three slots, an item named in two
\* output slots, and a declared output rate of zero
Catalog ==
    << Recipe(<< <<"Ore", Num(3)>> >>, << <<"Plate", Num(2)>> >>,
              "Smelter", "Build_Smelter", "Recipe_Plate"),
       Recipe(<< <<"Ore", Num(1)>> >>, << <<"Slag", Num(2)>>, <<"Plate", Num(1)>> >>,
              "Refinery", "Build_Refinery", "Recipe_Alt_Plate"),
       Recipe(<< <<"Ore", Num(1)>>, <<"Ore", Num(1)>>, <<"Ore", Num(16)>> >>,
              << <<"Gear", Num(3)>> >>,
              "Assembler", "Build_Assembler", "Recipe_Gear"),
       Recipe(<< <<"Ore", Num(1)>> >>, << <<"Plate", Num(1)>>, <<"Plate", Num(1)>> >>,
              "Machine", "", "Recipe_Twice"),
       Recipe(<< <<"Ore", Num(1)>> >>, << <<"Plate", Num(0)>> >>,
              "Machine", "", "Recipe_Idle") >>

\* the command line's targets: names and parsed rates (not validated)
TargetNames == {"Plate", "Gear"}
InitRates == {Num(0), Num(3)}
\* rates handed to scale_connected_component
ScaleRates == {Num(0), Num(3), Num(13)}

(* ----------------------------- graph ---------------------------------- *)
\* models.ItemNode and models.RecipeNode, both constructed active
ItemNode(name, rate) == [name |-> name, rate |-> rate, active |-> TRUE]

RecipeNode(recipe, machines, machine_name, in_ids, out_ids) ==
    [recipe |-> recipe, machines |-> machines, machine_name |-> machine_name,
     in_ids |-> in_ids, out_ids |-> out_ids, active |-> TRUE]

\* a plausible slip: the range is checked, the tombstone is not
is_index(items, item_id) == 0 <= item_id /\ item_id < Len(items)

is_valid_item(items, item_id) ==
    0 <= item_id /\ item_id < Len(items) /\ items[item_id + 1].active

RECURSIVE Count(_, _)
Count(seq, x) ==
    IF seq = <<>> THEN 0
    ELSE (IF Head(seq) = x THEN 1 ELSE 0) + Count(Tail(seq), x)

\* the recipe ids appended for item_id while recipe nodes r.. are enumerated:
\* one entry per listing of item_id in the node's out_ids (or in_ids)
RECURSIVE AdjacencyList(_, _, _, _, _)
AdjacencyList(items, recipes, item_id, outs, r) ==
    IF r > Len(recipes) THEN <<>>
    ELSE LET node == recipes[r]
             ids == IF outs THEN node.out_ids ELSE node.in_ids
             here == IF node.active /\ is_valid_item(items, item_id)
                     THEN [k \in 1..Count(ids, item_id) |-> r - 1]
                     ELSE <<>>
         IN  here \o AdjacencyList(items, recipes, item_id, outs, r + 1)

\* producers and consumers, a defaultdict(list) each: a key never appended
\* to reads as the empty list
build_adjacency(items, recipes) ==
    [producers |-> [i \in 0..(Len(items) - 1) |->
                        AdjacencyList(items, recipes, i, TRUE, 1)],
     consumers |-> [i \in 0..(Len(items) - 1) |->
                        AdjacencyList(items, recipes, i, FALSE, 1)]]

\* list_active_items: one line per active item in index order, here its
\* id, name, rate and tags
\* a plausible slip: the tombstones are listed too
RECURSIVE ActiveItemLinesAll(_, _, _)
ActiveItemLinesAll(items, adj, i) ==
    IF i > Len(items) THEN <<>>
    ELSE LET item_id == i - 1
             expandable == IF Len(adj.producers[item_id]) = 0
                           THEN <<"expandable">> ELSE <<>>
             leaf == IF Len(adj.producers[item_id]) = 0 /\ Len(adj.consumers[item_id]) > 0
                     THEN <<"leaf">> ELSE <<>>
         IN  << <<item_id, items[i].name, items[i].rate, expandable \o leaf>> >>
             \o ActiveItemLinesAll(items, adj, i + 1)

RECURSIVE ActiveItemLines(_, _, _)
ActiveItemLines(items, adj, i) ==
    IF i > Len(items) THEN <<>>
    ELSE LET item_id == i - 1
             node == items[i]
             expandable == IF Len(adj.producers[item_id]) = 0
                           THEN <<"expandable">> ELSE <<>>
             leaf == IF Len(adj.producers[item_id]) = 0 /\ Len(adj.consumers[item_id]) > 0
                     THEN <<"leaf">> ELSE <<>>
             line == IF node.active
                     THEN << <<item_id, node.name, node.rate, expandable \o leaf>> >>
                     ELSE <<>>
         IN  line \o ActiveItemLines(items, adj, i + 1)

list_active_items(items, recipes) ==
    ActiveItemLines(items, build_adjacency(items, recipes), 1)

\* what a call returns, with the node sequences it leaves behind
Result(ok, msg, items, recipes) ==
    [ok |-> ok, msg |-> msg, items |-> items, recipes |-> recipes]

\* "return False, msg": every rejection returns before the first mutation
Reject(msg, items, recipes) == Result(FALSE, msg, items, recipes)

(* ----------------------------- expand --------------------------------- *)
\* the positions of recipe.outs that name item_name, ascending
RECURSIVE OutPos(_, _, _)
OutPos(outs, item_name, i) ==
    IF i > Len(outs) THEN <<>>
    ELSE (IF outs[i][1] = item_name THEN <<i>> ELSE <<>>)
         \o OutPos(outs, item_name, i + 1)

\* a plausible slip: the matched slot loses its "continue" and gets a new item
\* node like every other slot
RECURSIVE ExpandOutsAll(_, _, _, _, _, _)
ExpandOutsAll(outs, i, out_pos, item_node_id, machines, acc) ==
    IF i > Len(outs) THEN acc
    ELSE ExpandOutsAll(outs, i + 1, out_pos, item_node_id, machines,
                       [items |-> Append(acc.items,
                                         ItemNode(outs[i][1], Mul(machines, outs[i][2]))),
                        ids |-> (IF i = out_pos THEN Append(acc.ids, item_node_id)
                                 ELSE acc.ids) \o <<Len(acc.items)>>])

\* the loop over recipe.outs from slot i: acc = [items, ids]
RECURSIVE ExpandOuts(_, _, _, _, _, _)
ExpandOuts(outs, i, out_pos, item_node_id, machines, acc) ==
    IF i > Len(outs) THEN acc
    ELSE IF i = out_pos
         THEN ExpandOuts(outs, i + 1, out_pos, item_node_id, machines,
                         [acc EXCEPT !.ids = Append(@, item_node_id)])
         ELSE ExpandOuts(outs, i + 1, out_pos, item_node_id, machines,
                         [items |-> Append(acc.items,
                                           ItemNode(outs[i][1], Mul(machines, outs[i][2]))),
                          ids |-> Append(acc.ids, Len(acc.items))])

\* a plausible slip: input nodes get the declared rate, not machines * rate
RECURSIVE ExpandInsUnscaled(_, _, _, _)
ExpandInsUnscaled(ins, i, machines, acc) ==
    IF i > Len(ins) THEN acc
    ELSE ExpandInsUnscaled(ins, i + 1, machines,
                   [items |-> Append(acc.items, ItemNode(ins[i][1], ins[i][2])),
                    ids |-> Append(acc.ids, Len(acc.items))])

\* a plausible slip: an input name that an earlier slot named gets no node
RECURSIVE ExpandInsDistinct(_, _, _, _)
ExpandInsDistinct(ins, i, machines, acc) ==
    IF i > Len(ins) THEN acc
    ELSE IF \E j \in 1..(i - 1) : ins[j][1] = ins[i][1]
    THEN ExpandInsDistinct(ins, i + 1, machines, acc)
    ELSE ExpandInsDistinct(ins, i + 1, machines,
                   [items |-> Append(acc.items,
                                     ItemNode(ins[i][1], Mul(machines, ins[i][2]))),
                    ids |-> Append(acc.ids, Len(acc.items))])

\* a plausible slip: the new id is taken one too low
RECURSIVE ExpandInsOffByOne(_, _, _, _)
ExpandInsOffByOne(ins, i, machines, acc) ==
    IF i > Len(ins) THEN acc
    ELSE ExpandInsOffByOne(ins, i + 1, machines,
                   [items |-> Append(acc.items,
                                     ItemNode(ins[i][1], Mul(machines, ins[i][2]))),
                    ids |-> Append(acc.ids, Len(acc.items) - 1)])

\* the loop over recipe.ins from slot i
RECURSIVE ExpandIns(_, _, _, _)
ExpandIns(ins, i, machines, acc) ==
    IF i > Len(ins) THEN acc
    ELSE ExpandIns(ins, i + 1, machines,
                   [items |-> Append(acc.items,
                                     ItemNode(ins[i][1], Mul(machines, ins[i][2]))),
                    ids |-> Append(acc.ids, Len(acc.items))])

ExpandAppend(items, recipes, item_node_id, recipe, out_pos, machines) ==
    LET o == ExpandOuts(recipe.outs, 1, out_pos, item_node_id, machines,
                        [items |-> items, ids |-> <<>>])
        n == ExpandIns(recipe.ins, 1, machines, [items |-> o.items, ids |-> <<>>])
    IN  Result(TRUE, <<"Expanded.">>, n.items,
               Append(recipes,
                      RecipeNode(recipe, machines, recipe.machine_name, n.ids, o.ids)))

\* a plausible slip: the nodes are appended before the machine count is checked
ExpandScaledLateCheck(items, recipes, item_node_id, recipe, out_pos) ==
    LET out_rate == recipe.outs[out_pos][2] IN
    IF RLe(out_rate, Zero)
    THEN Reject(<<"Invalid recipe output rate.">>, items, recipes)
    ELSE LET machines == Div(items[item_node_id + 1].rate, out_rate)
             done == ExpandAppend(items, recipes, item_node_id, recipe, out_pos, machines)
         IN  IF RLe(machines, Zero)
             THEN Result(FALSE, <<"Target node rate must be positive.">>,
                         done.items, done.recipes)
             ELSE done

\* from the matched slot on: the rate checks, then the appends
ExpandScaled(items, recipes, item_node_id, recipe, out_pos) ==
    LET out_rate == recipe.outs[out_pos][2] IN
    IF RLe(out_rate, Zero)
    THEN Reject(<<"Invalid recipe output rate.">>, items, recipes)
    ELSE LET machines == Div(items[item_node_id + 1].rate, out_rate) IN
         IF RLe(machines, Zero)
         THEN Reject(<<"Target node rate must be positive.">>, items, recipes)
         ELSE ExpandAppend(items, recipes, item_node_id, recipe, out_pos, machines)

\* a plausible slip: the producer check is missing
NeverProduced(items, recipes, item_node_id) == FALSE

\* a plausible slip: the check reads the consumers where it means the producers
AlreadyConsumed(items, recipes, item_node_id) ==
    Len(build_adjacency(items, recipes).consumers[item_node_id]) > 0

AlreadyProduced(items, recipes, item_node_id) ==
    Len(build_adjacency(items, recipes).producers[item_node_id]) > 0

\* a plausible slip: an item named in several output slots is matched to the
\* first of them
ExpandFirstMatch(items, recipes, item_node_id, recipe) ==
    IF ~is_valid_item(items, item_node_id)
    THEN Reject(<<"Invalid item node id.">>, items, recipes)
    ELSE IF AlreadyProduced(items, recipes, item_node_id)
    THEN Reject(<<"This node is already produced. Expand a different node.">>,
                items, recipes)
    ELSE LET out_pos == OutPos(recipe.outs, items[item_node_id + 1].name, 1) IN
         IF Len(out_pos) = 0
         THEN Reject(<<"Selected recipe does not produce this item.">>, items, recipes)
         ELSE ExpandScaled(items, recipes, item_node_id, recipe, out_pos[1])

expand(items, recipes, item_node_id, recipe) ==
    IF ~is_valid_item(items, item_node_id)
    THEN Reject(<<"Invalid item node id.">>, items, recipes)
    ELSE IF AlreadyProduced(items, recipes, item_node_id)
    THEN Reject(<<"This node is already produced. Expand a different node.">>,
                items, recipes)
    ELSE LET out_pos == OutPos(recipe.outs, items[item_node_id + 1].name, 1) IN
         IF Len(out_pos) = 0
         THEN Reject(<<"Selected recipe does not produce this item.">>, items, recipes)
         ELSE IF Len(out_pos) > 1
         THEN Reject(<<"Recipe has duplicated outputs for this item; cannot disambiguate.">>,
                     items, recipes)
         ELSE ExpandScaled(items, recipes, item_node_id, recipe, out_pos[1])

(* ------------------- scale_connected_component ------------------------ *)
\* a plausible slip: a recipe node is enqueued whether visited or not
RECURSIVE VisitRecipesAgain(_, _)
VisitRecipesAgain(list, st) ==
    IF list = <<>> THEN st
    ELSE VisitRecipesAgain(Tail(list),
             [st EXCEPT !.visited_recipes = @ \cup {Head(list)},
                        !.queue = Append(@, <<"recipe", Head(list)>>),
                        !.enqueued = Append(@, <<"recipe", Head(list)>>)])

\* "for recipe_id in producers[node_id]" / "in consumers[node_id]": st is
\* [queue, visited_items, visited_recipes, enqueued]
RECURSIVE VisitRecipes(_, _)
VisitRecipes(list, st) ==
    IF list = <<>> THEN st
    ELSE LET recipe_id == Head(list) IN
         IF recipe_id \notin st.visited_recipes
         THEN VisitRecipes(Tail(list),
                  [st EXCEPT !.visited_recipes = @ \cup {recipe_id},
                             !.queue = Append(@, <<"recipe", recipe_id>>),
                             !.enqueued = Append(@, <<"recipe", recipe_id>>)])
         ELSE VisitRecipes(Tail(list), st)

\* "for item_id in recipe_node.in_ids + recipe_node.out_ids"
RECURSIVE VisitItems(_, _, _)
VisitItems(items, list, st) ==
    IF list = <<>> THEN st
    ELSE LET item_id == Head(list) IN
         IF is_valid_item(items, item_id) /\ item_id \notin st.visited_items
         THEN VisitItems(items, Tail(list),
                  [st EXCEPT !.visited_items = @ \cup {item_id},
                             !.queue = Append(@, <<"item", item_id>>),
                             !.enqueued = Append(@, <<"item", item_id>>)])
         ELSE VisitItems(items, Tail(list), st)

\* a plausible slip: from an item only its consumers are followed
RECURSIVE TraverseConsumers(_, _, _, _)
TraverseConsumers(items, recipes, adj, st) ==
    IF st.queue = <<>> THEN st
    ELSE LET node_type == Head(st.queue)[1]
             node_id == Head(st.queue)[2]
             popped == [st EXCEPT !.queue = Tail(@)]
         IN  IF node_type = "item"
             THEN TraverseConsumers(items, recipes, adj,
                      VisitRecipes(adj.consumers[node_id], popped))
             ELSE LET recipe_node == recipes[node_id + 1] IN
                  IF ~recipe_node.active
                  THEN TraverseConsumers(items, recipes, adj, popped)
                  ELSE TraverseConsumers(items, recipes, adj,
                           VisitItems(items, recipe_node.in_ids \o recipe_node.out_ids,
                                      popped))

\* "while queue": one popleft per unfolding
RECURSIVE Traverse(_, _, _, _)
Traverse(items, recipes, adj, st) ==
    IF st.queue = <<>> THEN st
    ELSE LET node_type == Head(st.queue)[1]
             node_id == Head(st.queue)[2]
             popped == [st EXCEPT !.queue = Tail(@)]
         IN  IF node_type = "item"
             THEN Traverse(items, recipes, adj,
                      VisitRecipes(adj.consumers[node_id],
                          VisitRecipes(adj.producers[node_id], popped)))
             ELSE LET recipe_node == recipes[node_id + 1] IN
                  IF ~recipe_node.active
                  THEN Traverse(items, recipes, adj, popped)
                  ELSE Traverse(items, recipes, adj,
                           VisitItems(items, recipe_node.in_ids \o recipe_node.out_ids,
                                      popped))

\* the traversal from item_node_id: the visited sets and every enqueue
Component(items, recipes, item_node_id) ==
    Traverse(items, recipes, build_adjacency(items, recipes),
             [queue |-> << <<"item", item_node_id>> >>,
              visited_items |-> {item_node_id},
              visited_recipes |-> {},
              enqueued |-> << <<"item", item_node_id>> >>])

\* a plausible slip: the machine counts are left as they were
ScaleRecipesNone(recipes, visited_recipes, factor) == recipes

\* "machines *= factor" over visited_recipes, "rate *= factor" over visited_items
ScaleRecipes(recipes, visited_recipes, factor) ==
    [r \in 1..Len(recipes) |->
        IF (r - 1) \in visited_recipes
        THEN [recipes[r] EXCEPT !.machines = Mul(@, factor)]
        ELSE recipes[r]]

\* a plausible slip: every item node is rescaled, not only the visited ones
ScaleItemsAll(items, visited_items, factor) ==
    [i \in 1..Len(items) |-> [items[i] EXCEPT !.rate = Mul(@, factor)]]

\* a plausible slip: the start item is not rescaled with its component
ScaleItemsButFirst(items, visited_items, factor) ==
    [i \in 1..Len(items) |->
        IF (i - 1) \in visited_items /\ \E j \in visited_items : j < i - 1
        THEN [items[i] EXCEPT !.rate = Mul(@, factor)]
        ELSE items[i]]

ScaleItems(items, visited_items, factor) ==
    [i \in 1..Len(items) |->
        IF (i - 1) \in visited_items
        THEN [items[i] EXCEPT !.rate = Mul(@, factor)]
        ELSE items[i]]

\* a plausible slip: the target rate is not checked
ScaleAnyTarget(items, recipes, item_node_id, target_rate) ==
    IF ~is_valid_item(items, item_node_id)
    THEN Reject(<<"Invalid item node id.">>, items, recipes)
    ELSE LET current_rate == items[item_node_id + 1].rate IN
         IF RLe(current_rate, Zero)
         THEN Reject(<<"Current node rate is zero; cannot scale by ratio.">>,
                     items, recipes)
         ELSE LET factor == Div(target_rate, current_rate)
                  c == Component(items, recipes, item_node_id)
              IN  Result(TRUE,
                         <<"Scaled component by x", factor,
                           Cardinality(c.visited_items),
                           Cardinality(c.visited_recipes)>>,
                         ScaleItems(items, c.visited_items, factor),
                         ScaleRecipes(recipes, c.visited_recipes, factor))

scale_connected_component(items, recipes, item_node_id, target_rate) ==
    IF ~is_valid_item(items, item_node_id)
    THEN Reject(<<"Invalid item node id.">>, items, recipes)
    ELSE IF RLe(target_rate, Zero)
    THEN Reject(<<"Target rate must be positive.">>, items, recipes)
    ELSE LET current_rate == items[item_node_id + 1].rate IN
         IF RLe(current_rate, Zero)
         THEN Reject(<<"Current node rate is zero; cannot scale by ratio.">>,
                     items, recipes)
         ELSE LET factor == Div(target_rate, current_rate)
                  c == Component(items, recipes, item_node_id)
              IN  Result(TRUE,
                         <<"Scaled component by x", factor,
                           Cardinality(c.visited_items),
                           Cardinality(c.visited_recipes)>>,
                         ScaleItems(items, c.visited_items, factor),
                         ScaleRecipes(recipes, c.visited_recipes, factor))

(* --------------------------- merge_leaves ----------------------------- *)
InSeq(seq, x) == \E k \in 1..Len(seq) : seq[k] = x

\* a plausible slip: repeated ids are kept
OrderedAll(item_node_ids, acc) == acc \o item_node_ids

\* order-preserving de-duplication of item_node_ids
RECURSIVE OrderedUnique(_, _)
OrderedUnique(item_node_ids, acc) ==
    IF item_node_ids = <<>> THEN acc
    ELSE OrderedUnique(Tail(item_node_ids),
                       IF InSeq(acc, Head(item_node_ids)) THEN acc
                       ELSE Append(acc, Head(item_node_ids)))

\* the first id of the list that is no valid item, as a one-element list
RECURSIVE FirstInvalid(_, _)
FirstInvalid(items, ids) ==
    IF ids = <<>> THEN <<>>
    ELSE IF ~is_valid_item(items, Head(ids)) THEN <<Head(ids)>>
    ELSE FirstInvalid(items, Tail(ids))

\* a plausible slip: an item without consumers passes the leaf check
RECURSIVE LeafCheckProducers(_, _)
LeafCheckProducers(adj, ids) ==
    IF ids = <<>> THEN <<>>
    ELSE IF Len(adj.producers[Head(ids)]) > 0
    THEN <<"Item node is not a leaf (already has producer): ", Head(ids)>>
    ELSE LeafCheckProducers(adj, Tail(ids))

\* a plausible slip: the producer check is left out
RECURSIVE LeafCheckConsumers(_, _)
LeafCheckConsumers(adj, ids) ==
    IF ids = <<>> THEN <<>>
    ELSE IF Len(adj.consumers[Head(ids)]) = 0
    THEN <<"Item node has no consumers: ", Head(ids)>>
    ELSE LeafCheckConsumers(adj, Tail(ids))

\* the leaf check in list order: the first failing id's message, or <<>>
RECURSIVE LeafCheck(_, _)
LeafCheck(adj, ids) ==
    IF ids = <<>> THEN <<>>
    ELSE IF Len(adj.producers[Head(ids)]) > 0
    THEN <<"Item node is not a leaf (already has producer): ", Head(ids)>>
    ELSE IF Len(adj.consumers[Head(ids)]) = 0
    THEN <<"Item node has no consumers: ", Head(ids)>>
    ELSE LeafCheck(adj, Tail(ids))

\* sum(...) over the ids in list order, from the start value acc
RECURSIVE SumRates(_, _, _)
SumRates(items, ids, acc) ==
    IF ids = <<>> THEN acc
    ELSE SumRates(items, Tail(ids), Add(acc, items[Head(ids) + 1].rate))

\* a plausible slip: the sum runs over the dropped ids only
MergedRateOfDropped(items, ordered_unique_ids) ==
    SumRates(items, Tail(ordered_unique_ids), Zero)

\* merged_rate = sum(... for item_id in ordered_unique_ids)
MergedRate(items, ordered_unique_ids) == SumRates(items, ordered_unique_ids, Zero)

\* a plausible slip: the consumers keep naming the dropped ids
RewriteNothing(recipes, keep_id, drop_set) == recipes

\* a plausible slip: the test for a dropped id is inverted
RewriteInputsInverted(recipes, keep_id, drop_set) ==
    [r \in 1..Len(recipes) |->
        IF ~recipes[r].active THEN recipes[r]
        ELSE [recipes[r] EXCEPT !.in_ids =
                 [k \in 1..Len(@) |-> IF @[k] \notin drop_set THEN keep_id ELSE @[k]]]]

\* a plausible slip: the consumers of a dropped node are retired with it
RewriteInputsRetire(recipes, keep_id, drop_set) ==
    [r \in 1..Len(recipes) |->
        IF ~recipes[r].active THEN recipes[r]
        ELSE [recipes[r] EXCEPT
                 !.in_ids = [k \in 1..Len(@) |->
                                IF @[k] \in drop_set THEN keep_id ELSE @[k]],
                 !.active = \A k \in 1..Len(recipes[r].in_ids) :
                               recipes[r].in_ids[k] \notin drop_set]]

\* a plausible slip: the rewritten in_ids are de-duplicated
RewriteInputsOnce(recipes, keep_id, drop_set) ==
    [r \in 1..Len(recipes) |->
        IF ~recipes[r].active THEN recipes[r]
        ELSE [recipes[r] EXCEPT !.in_ids =
                 OrderedUnique([k \in 1..Len(@) |->
                                   IF @[k] \in drop_set THEN keep_id ELSE @[k]], <<>>)]]

\* the in_ids rewrite over the active recipe nodes
RewriteInputs(recipes, keep_id, drop_set) ==
    [r \in 1..Len(recipes) |->
        IF ~recipes[r].active THEN recipes[r]
        ELSE [recipes[r] EXCEPT !.in_ids =
                 [k \in 1..Len(@) |-> IF @[k] \in drop_set THEN keep_id ELSE @[k]]]]

\* a plausible slip: a dropped node is overwritten by an empty placeholder
MergeItemsBlank(items, keep_id, drop_set, merged_rate) ==
    [i \in 1..Len(items) |->
        IF i - 1 = keep_id THEN [items[i] EXCEPT !.rate = merged_rate]
        ELSE IF (i - 1) \in drop_set THEN [name |-> "", rate |-> Zero, active |-> FALSE]
        ELSE items[i]]

\* a plausible slip: the survivor is tombstoned with the others
MergeItemsAllDropped(items, keep_id, drop_set, merged_rate) ==
    [i \in 1..Len(items) |->
        IF i - 1 = keep_id
        THEN [items[i] EXCEPT !.rate = merged_rate, !.active = FALSE]
        ELSE IF (i - 1) \in drop_set THEN [items[i] EXCEPT !.active = FALSE]
        ELSE items[i]]

\* the survivor's new rate and the tombstones
MergeItems(items, keep_id, drop_set, merged_rate) ==
    [i \in 1..Len(items) |->
        IF i - 1 = keep_id THEN [items[i] EXCEPT !.rate = merged_rate]
        ELSE IF (i - 1) \in drop_set THEN [items[i] EXCEPT !.active = FALSE]
        ELSE items[i]]

KeepId(ordered_unique_ids) == ordered_unique_ids[1]

DropSet(ordered_unique_ids) ==
    {ordered_unique_ids[k] : k \in 2..Len(ordered_unique_ids)}

merge_leaves(items, recipes, item_node_ids) ==
    LET ordered_unique_ids == OrderedUnique(item_node_ids, <<>>) IN
    IF Len(ordered_unique_ids) < 2
    THEN Reject(<<"Specify at least two distinct item node IDs.">>, items, recipes)
    ELSE IF FirstInvalid(items, ordered_unique_ids) # <<>>
    THEN Reject(<<"Invalid item node id: ",
                  FirstInvalid(items, ordered_unique_ids)[1]>>, items, recipes)
    ELSE IF Cardinality({items[ordered_unique_ids[k] + 1].name :
                            k \in 1..Len(ordered_unique_ids)}) # 1
    THEN Reject(<<"Only same-name item nodes can be merged.">>, items, recipes)
    ELSE LET adj == build_adjacency(items, recipes)
             bad == LeafCheck(adj, ordered_unique_ids)
         IN  IF bad # <<>> THEN Reject(bad, items, recipes)
             ELSE LET keep_id == KeepId(ordered_unique_ids)
                      drop_set == DropSet(ordered_unique_ids)
                      merged_rate == MergedRate(items, ordered_unique_ids)
                  IN  Result(TRUE,
                             <<"Merged into node ", keep_id,
                               items[keep_id + 1].name, merged_rate>>,
                             MergeItems(items, keep_id, drop_set, merged_rate),
                             RewriteInputs(recipes, keep_id, drop_set))

(* ------------------------- session.py --------------------------------- *)
GenGraph(items, recipes) == [item_nodes |-> items, recipe_nodes |-> recipes]

SessionState(graph, label) == [graph |-> graph, label |-> label]

\* A label is kept as its parts and the string that joins them.  The names
\* used here hold no character that sanitize_filename_component replaces,
\* so all it does to a label is to collapse the "__" between parts to "_"
sanitize_filename_component(label) ==
    IF Len(label.parts) > 1 THEN [label EXCEPT !.sep = "_"] ELSE label

\* build_session_label: one "name_rate" part per pair joined by "__", or
\* "empty"; the labels stay below the 120 characters at which the source
\* cuts them, and "%g" is exact on the rates given on the command line
build_session_label(pairs) ==
    IF Len(pairs) = 0 THEN [parts |-> <<"empty">>, sep |-> "__"]
    ELSE [parts |-> [k \in 1..Len(pairs) |-> <<pairs[k][1], pairs[k][2]>>],
          sep |-> "__"]

\* float(x), int(x), bool(x) as graph_from_dict applies them: float rounds
\* to the nearest float, int of an integer id is that integer
ToFloat(x) == Fl(x)
ToInt(x) == x
ToBool(x) == x = TRUE

graph_to_dict(graph) ==
    [item_nodes |->
        [i \in 1..Len(graph.item_nodes) |->
            [name |-> graph.item_nodes[i].name,
             rate |-> graph.item_nodes[i].rate,
             active |-> graph.item_nodes[i].active]],
     recipe_nodes |->
        [r \in 1..Len(graph.recipe_nodes) |->
            [recipe |-> [ins |-> graph.recipe_nodes[r].recipe.ins,
                         outs |-> graph.recipe_nodes[r].recipe.outs,
                         machine_name |-> graph.recipe_nodes[r].recipe.machine_name,
                         machine_class |-> graph.recipe_nodes[r].recipe.machine_class,
                         recipe_id |-> graph.recipe_nodes[r].recipe.recipe_id],
             machines |-> graph.recipe_nodes[r].machines,
             machine_name |-> graph.recipe_nodes[r].machine_name,
             in_ids |-> graph.recipe_nodes[r].in_ids,
             out_ids |-> graph.recipe_nodes[r].out_ids,
             active |-> graph.recipe_nodes[r].active]]]

\* the (name, float(rate)) pairs of a serialised slot list
SlotsFromDict(slots) == [k \in 1..Len(slots) |-> <<slots[k][1], ToFloat(slots[k][2])>>]

\* a plausible slip: the active flag is not read back
ItemFromDictActive(item) == ItemNode(item.name, ToFloat(item.rate))

ItemFromDict(item) ==
    [name |-> item.name, rate |-> ToFloat(item.rate), active |-> ToBool(item.active)]

RecipeNodeFromDict(recipe_node) ==
    [recipe |-> Recipe(SlotsFromDict(recipe_node.recipe.ins),
                       SlotsFromDict(recipe_node.recipe.outs),
                       recipe_node.recipe.machine_name,
                       recipe_node.recipe.machine_class,
                       recipe_node.recipe.recipe_id),
     machines |-> ToFloat(recipe_node.machines),
     machine_name |-> recipe_node.machine_name,
     in_ids |-> [k \in 1..Len(recipe_node.in_ids) |-> ToInt(recipe_node.in_ids[k])],
     out_ids |-> [k \in 1..Len(recipe_node.out_ids) |-> ToInt(recipe_node.out_ids[k])],
     active |-> ToBool(recipe_node.active)]

graph_from_dict(data) ==
    GenGraph([i \in 1..Len(data.item_nodes) |-> ItemFromDict(data.item_nodes[i])],
             [r \in 1..Len(data.recipe_nodes) |->
                 RecipeNodeFromDict(data.recipe_nodes[r])])

\* the payload save_session writes and load_session reads back
save_session(state) ==
    [version |-> 1,
     session_label |-> sanitize_filename_component(state.label),
     graph |-> graph_to_dict(state.graph)]

load_session(payload) ==
    SessionState(graph_from_dict(payload.graph), payload.session_label)

(* --------------------------- the session ------------------------------ *)
RECURSIVE SeqsUpTo(_, _)
SeqsUpTo(S, n) ==
    IF n = 0 THEN {<<>>}
    ELSE LET shorter == SeqsUpTo(S, n - 1) IN
         shorter \cup {Append(q, x) : q \in {t \in shorter : Len(t) = n - 1}, x \in S}

NoCall == [op |-> "none"]

\* main(): one ItemNode(output_name, float(rate)) per (name, rate) pair of
\* the command line, no recipe node
InitGraph ==
    /\ item_nodes \in {[k \in 1..Len(t) |-> ItemNode(t[k][1], t[k][2])] :
                          t \in SeqsUpTo(TargetNames \X InitRates, MaxTargets)}
    /\ recipe_nodes = <<>>
    /\ prev_items = item_nodes
    /\ prev_recipes = recipe_nodes
    /\ call = NoCall
    /\ pc = "prompt"
    /\ nscaled = 0
    /\ history = <<>>
    /\ session_label =
          build_session_label([k \in 1..Len(item_nodes) |->
                                  <<item_nodes[k].name, item_nodes[k].rate>>])

\* ids a caller may name: every index, one below and one past the range
IdArgs == (0 - 1)..Len(item_nodes)

Returned(res, c) ==
    /\ item_nodes' = res.items
    /\ recipe_nodes' = res.recipes
    /\ prev_items' = item_nodes
    /\ prev_recipes' = recipe_nodes
    /\ call' = c
    /\ pc' = "returned"

Expand ==
    /\ pc = "prompt"
    /\ \E item_node_id \in IdArgs, r \in 1..Len(Catalog) :
          LET res == expand(item_nodes, recipe_nodes, item_node_id, Catalog[r]) IN
          /\ Len(res.items) <= MaxItems
          /\ Returned(res, [op |-> "expand", item_node_id |-> item_node_id,
                            recipe |-> Catalog[r], ok |-> res.ok, msg |-> res.msg])
          /\ UNCHANGED <<nscaled, history, session_label, arith>>

Scale ==
    /\ pc = "prompt"
    /\ \E item_node_id \in IdArgs, target_rate \in ScaleRates :
          LET res == scale_connected_component(item_nodes, recipe_nodes,
                                               item_node_id, target_rate) IN
          /\ res.ok => nscaled < MaxScales
          /\ Returned(res, [op |-> "scale", item_node_id |-> item_node_id,
                            target_rate |-> target_rate, ok |-> res.ok, msg |-> res.msg])
          /\ nscaled' = IF res.ok THEN nscaled + 1 ELSE nscaled
          /\ UNCHANGED <<history, session_label, arith>>

Merge ==
    /\ pc = "prompt"
    /\ \E item_node_ids \in SeqsUpTo(IdArgs, MaxIds) :
          LET res == merge_leaves(item_nodes, recipe_nodes, item_node_ids) IN
          /\ Returned(res, [op |-> "merge", item_node_ids |-> item_node_ids,
                            ok |-> res.ok, msg |-> res.msg])
          /\ UNCHANGED <<nscaled, history, session_label, arith>>

\* the message is printed and the loop reads the next command
Continue ==
    /\ pc = "returned"
    /\ pc' = "prompt"
    /\ call' = NoCall
    /\ prev_items' = item_nodes
    /\ prev_recipes' = recipe_nodes
    /\ UNCHANGED <<item_nodes, recipe_nodes, nscaled, history, session_label, arith>>

Next == Expand \/ Scale \/ Merge \/ Continue

\* the program as it runs: Python floats
Init == InitGraph /\ arith = "float"
Spec == Init /\ [][Next]_vars

\* the same program over exact rationals
InitExact == InitGraph /\ arith = "exact"
SpecExact == InitExact /\ [][Next]_vars

(* ----------------------- chains of recipes --------------------------- *)
\* recipes that feed each other, so that an expanded item's inputs can be
\* expanded in turn and a name recurs along the chain
ChainCatalog ==
    << Catalog[1], Catalog[3],
       Recipe(<< <<"Plate", Num(1)>> >>, << <<"Ore", Num(1)>> >>,
              "Recycler", "Build_Recycler", "Recipe_Ore") >>

ExpandChain ==
    /\ pc = "prompt"
    /\ \E item_node_id \in IdArgs, r \in 1..Len(ChainCatalog) :
          LET res == expand(item_nodes, recipe_nodes, item_node_id, ChainCatalog[r]) IN
          /\ Len(res.items) <= MaxItems
          /\ Returned(res, [op |-> "expand", item_node_id |-> item_node_id,
                            recipe |-> ChainCatalog[r], ok |-> res.ok, msg |-> res.msg])
          /\ UNCHANGED <<nscaled, history, session_label, arith>>

NextChain == ExpandChain \/ Scale \/ Merge \/ Continue

\* the core driven with the recipes that chain
SpecChain == Init /\ [][NextChain]_vars

(* ------------------ a graph with an undirected cycle ------------------- *)
\* a recipe with two inputs of one name
PairRecipe ==
    Recipe(<< <<"Ore", Num(1)>>, <<"Ore", Num(2)>> >>, << <<"Gear", Num(1)>> >>,
           "Assembler", "", "Recipe_Pair")

\* a run with two Gear targets taken up after both were expanded by that
\* recipe and their Ore leaves were merged in pairs: each of the two
\* surviving leaves feeds both recipe nodes
InitCycle ==
    /\ arith = "float"
    /\ \E one \in {expand(<<ItemNode("Gear", Num(3)), ItemNode("Gear", Num(3))>>, <<>>,
                           0, PairRecipe)} :
       \E two \in {expand(one.items, one.recipes, 1, PairRecipe)} :
       \E three \in {merge_leaves(two.items, two.recipes, <<2, 4>>)} :
       \E four \in {merge_leaves(three.items, three.recipes, <<3, 5>>)} :
          /\ item_nodes = four.items
          /\ recipe_nodes = four.recipes
    /\ prev_items = item_nodes
    /\ prev_recipes = recipe_nodes
    /\ call = NoCall
    /\ pc = "prompt"
    /\ nscaled = 0
    /\ history = <<>>
    /\ session_label = build_session_label(<<<<"Gear", Num(3)>>, <<"Gear", Num(3)>>>>)

NextCycle == Scale \/ Merge \/ Continue

SpecCycle == InitCycle /\ [][NextCycle]_vars

(* ----------------------------- the shell ------------------------------ *)
\* main's item_to_recipe: the recipes of the catalog once per output slot
\* that names the item, in catalog order
RECURSIVE CandsFrom(_, _)
CandsFrom(name, r) ==
    IF r > Len(Catalog) THEN <<>>
    ELSE [k \in 1..Count([j \in 1..Len(Catalog[r].outs) |-> Catalog[r].outs[j][1]], name)
             |-> Catalog[r]]
         \o CandsFrom(name, r + 1)

item_to_recipe(name) == CandsFrom(name, 1)

\* a session an earlier run left under sessions/: two Plate targets, the
\* first expanded by the Refinery and the second by the Smelter, and the
\* two Ore leaves merged
SavedGraph ==
    LET one == expand(<<ItemNode("Plate", Num(3)), ItemNode("Plate", Num(3))>>, <<>>,
                      0, Catalog[2])
        two == expand(one.items, one.recipes, 1, Catalog[1])
        three == merge_leaves(two.items, two.recipes, <<3, 4>>)
    IN  GenGraph(three.items, three.recipes)

SavedSessions ==
    {save_session(SessionState(SavedGraph,
                               build_session_label(<<<<"Plate", Num(3)>>,
                                                     <<"Plate", Num(3)>>>>)))}

\* a plausible slip: the snapshot is the live object, so it shows what the
\* command did to the graph
SnapshotShared(items, recipes, res, label) ==
    SessionState(GenGraph(res.items, res.recipes), label)

\* SessionState(graph=copy.deepcopy(gen_graph), label=session_label), taken
\* before the call
Snapshot(items, recipes, res, label) ==
    SessionState(GenGraph(items, recipes), label)

\* a plausible slip: the snapshot of a refused command stays on the stack
SettleKeep(pushed, ok) == pushed

\* if not ok: history.pop()
Settle(pushed, ok) ==
    IF ok THEN pushed ELSE SubSeq(pushed, 1, Len(pushed) - 1)

\* history.append(snapshot); ok, msg = gen_graph.<command>(...); pop if not ok
CoreCommand(res, c) ==
    /\ Returned(res, c)
    /\ history' = Settle(Append(history,
                                Snapshot(item_nodes, recipe_nodes, res, session_label)),
                         res.ok)
    /\ UNCHANGED <<session_label, arith>>

\* a command the shell answers itself, with one line or none
ShellAnswer(cmd, msg) ==
    /\ prev_items' = item_nodes
    /\ prev_recipes' = recipe_nodes
    /\ call' = [op |-> "shell", cmd |-> cmd, msg |-> msg]
    /\ pc' = "returned"
    /\ UNCHANGED <<item_nodes, recipe_nodes, nscaled, history, session_label, arith>>

\* numbers typed at the recipe prompt: an index, one below or one past
ChoiceArgs(cands) == (0 - 1)..Len(cands)

ShellExpandWith(item_node_id, recipe) ==
    LET res == expand(item_nodes, recipe_nodes, item_node_id, recipe) IN
    /\ Len(res.items) <= MaxItems
    /\ CoreCommand(res, [op |-> "expand", item_node_id |-> item_node_id,
                         recipe |-> recipe, ok |-> res.ok, msg |-> res.msg])
    /\ UNCHANGED nscaled

\* "<id>": the shell's own checks, the recipe prompt, then the core
ShellExpand ==
    /\ pc = "prompt"
    /\ \E item_node_id \in IdArgs :
          IF ~is_valid_item(item_nodes, item_node_id)
          THEN ShellAnswer("expand", <<"Invalid node id.">>)
          ELSE LET cands == item_to_recipe(item_nodes[item_node_id + 1].name) IN
               IF Len(cands) = 0
               THEN ShellAnswer("expand", <<"Cannot expand: no recipes.">>)
               ELSE IF Len(cands) = 1
               THEN ShellExpandWith(item_node_id, cands[1])
               ELSE \/ ShellAnswer("expand", <<>>)    \* blank or cancel
                    \/ \E recipe_index \in ChoiceArgs(cands) :
                          IF ~(0 <= recipe_index /\ recipe_index < Len(cands))
                          THEN ShellAnswer("expand", <<"Invalid recipe id.">>)
                          ELSE ShellExpandWith(item_node_id, cands[recipe_index + 1])

\* "scale <node_id> <rate>"
ShellScale ==
    /\ pc = "prompt"
    /\ \E item_node_id \in IdArgs, target_rate \in ScaleRates :
          LET res == scale_connected_component(item_nodes, recipe_nodes,
                                               item_node_id, target_rate) IN
          /\ res.ok => nscaled < MaxScales
          /\ CoreCommand(res, [op |-> "scale", item_node_id |-> item_node_id,
                               target_rate |-> target_rate, ok |-> res.ok,
                               msg |-> res.msg])
          /\ nscaled' = IF res.ok THEN nscaled + 1 ELSE nscaled

\* "merge <id1> <id2> ...": fewer than two ids only print the usage line
ShellMerge ==
    /\ pc = "prompt"
    /\ \E item_node_ids \in SeqsUpTo(IdArgs, MaxIds) :
          IF Len(item_node_ids) < 2
          THEN ShellAnswer("merge", <<"Usage: merge <id1> <id2> ...">>)
          ELSE LET res == merge_leaves(item_nodes, recipe_nodes, item_node_ids) IN
               /\ CoreCommand(res, [op |-> "merge", item_node_ids |-> item_node_ids,
                                    ok |-> res.ok, msg |-> res.msg])
               /\ UNCHANGED nscaled

\* "undo": pop and rebind the graph and the label, or say there is nothing
Undo ==
    /\ pc = "prompt"
    /\ IF Len(history) = 0
       THEN ShellAnswer("undo", <<"Nothing to undo.">>)
       ELSE LET prev == history[Len(history)] IN
            /\ history' = SubSeq(history, 1, Len(history) - 1)
            /\ item_nodes' = prev.graph.item_nodes
            /\ recipe_nodes' = prev.graph.recipe_nodes
            /\ session_label' = prev.label
            /\ prev_items' = item_nodes
            /\ prev_recipes' = recipe_nodes
            /\ call' = [op |-> "shell", cmd |-> "undo", msg |-> <<"Undone.">>]
            /\ pc' = "returned"
            /\ UNCHANGED <<nscaled, arith>>

\* "resume": the loaded session replaces the graph and the label, the
\* current ones go on the undo stack
Resume ==
    /\ pc = "prompt"
    /\ Len(history) < MaxHistory
    /\ \E payload \in SavedSessions :
          LET state == load_session(payload) IN
          /\ history' = Append(history,
                               SessionState(GenGraph(item_nodes, recipe_nodes),
                                            session_label))
          /\ item_nodes' = state.graph.item_nodes
          /\ recipe_nodes' = state.graph.recipe_nodes
          /\ session_label' = state.label
          /\ prev_items' = item_nodes
          /\ prev_recipes' = recipe_nodes
          /\ call' = [op |-> "shell", cmd |-> "resume", msg |-> <<"Loaded session">>]
          /\ pc' = "returned"
          /\ UNCHANGED <<nscaled, arith>>

\* "nodes": the lines of list_active_items are printed
Nodes ==
    /\ pc = "prompt"
    /\ ShellAnswer("nodes", list_active_items(item_nodes, recipe_nodes))

ShellNext == ShellExpand \/ ShellScale \/ ShellMerge \/ Undo \/ Resume \/ Nodes \/ Continue

\* the interactive shell around the core, as it runs, started with targets
\* of a non-zero rate
InitShell == Init /\ \A k \in 1..Len(item_nodes) : item_nodes[k].rate # Zero
SpecShell == InitShell /\ [][ShellNext]_vars

(* ------------------------ reading a state ----------------------------- *)
\* a call of op has returned, with success flag ok
Did(op, ok) == pc = "returned" /\ call.op = op /\ call.ok = ok

ItemIds(items) == 0..(Len(items) - 1)
RecipeIds(recipes) == 0..(Len(recipes) - 1)
Range(seq) == {seq[k] : k \in 1..Len(seq)}

\* C1: a call of expand, scale_connected_component or merge_leaves that
\* returns success = False leaves both node sequences exactly as it found
\* them (every field of every node, and both lengths).
C1_RejectedCallChangesNothing ==
    (pc = "returned" /\ ~call.ok) =>
        (item_nodes = prev_items /\ recipe_nodes = prev_recipes)

\* an expand rejected at its last check, on a graph that already has nodes
\* an early append would have damaged
C1_Witness ==
    /\ Did("expand", FALSE)
    /\ call.msg = <<"Target node rate must be positive.">>
    /\ Len(recipe_nodes) > 0

(* C2 *)
\* the slots of a recipe's outs that name the item
Matches(recipe, name) == {k \in 1..Len(recipe.outs) : recipe.outs[k][1] = name}

\* the non-matched output slots, then the input slots, in slot order: the
\* order in which a successful expand creates its item nodes
NewSlots(recipe, m) ==
    [k \in 1..(Len(recipe.outs) - 1) |->
        recipe.outs[IF k < m THEN k ELSE k + 1]] \o recipe.ins

\* C2: after a successful expand(item, recipe) exactly one recipe node has
\* been appended; its machines is the expanded item's rate divided by the
\* matched output's declared rate; the expanded item's id fills the matched
\* slot of out_ids; and the new item nodes, one per non-matched output slot
\* and one per input slot in slot order, carry the slot's name and the rate
\* machines * declared rate, and fill the remaining slots of out_ids and
\* in_ids in that order.
C2_ExpandPostcondition ==
    Did("expand", TRUE) =>
        LET id == call.item_node_id
            recipe == call.recipe
            old == prev_items[id + 1]
            m == CHOOSE k \in Matches(recipe, old.name) : TRUE
            machines == Div(old.rate, recipe.outs[m][2])
            node == recipe_nodes[Len(recipe_nodes)]
            slots == NewSlots(recipe, m)
            base == Len(prev_items)
        IN  /\ Cardinality(Matches(recipe, old.name)) = 1
            /\ Len(recipe_nodes) = Len(prev_recipes) + 1
            /\ SubSeq(recipe_nodes, 1, Len(prev_recipes)) = prev_recipes
            /\ node.recipe = recipe
            /\ node.machines = machines
            /\ node.active
            /\ Len(node.out_ids) = Len(recipe.outs)
            /\ Len(node.in_ids) = Len(recipe.ins)
            /\ node.out_ids[m] = id
            /\ Len(item_nodes) = base + Len(slots)
            /\ SubSeq(item_nodes, 1, base) = prev_items
            /\ \A k \in 1..Len(slots) :
                  item_nodes[base + k] =
                      [name |-> slots[k][1], rate |-> Mul(machines, slots[k][2]),
                       active |-> TRUE]
            /\ \A k \in 1..Len(recipe.outs) :
                  k # m => node.out_ids[k] = base + (IF k < m THEN k ELSE k - 1) - 1
            /\ \A k \in 1..Len(recipe.ins) :
                  node.in_ids[k] = base + (Len(recipe.outs) - 1) + k - 1

\* an expand through a two-output recipe whose matched slot is the second,
\* with a machine count other than 1
C2_Witness ==
    /\ Did("expand", TRUE)
    /\ Len(call.recipe.outs) = 2
    /\ recipe_nodes[Len(recipe_nodes)].out_ids[2] = call.item_node_id
    /\ recipe_nodes[Len(recipe_nodes)].machines # Num(1)

(* C3, C4, C5 *)
\* the ids of valid items an active recipe node lists
Touches(items, node) ==
    {i \in Range(node.in_ids) \cup Range(node.out_ids) : is_valid_item(items, i)}

\* the weakly-connected component of a set of items: the least set closed
\* under "listed by one active recipe node together with a member"
RECURSIVE Grow(_, _, _)
Grow(items, recipes, S) ==
    LET T == S \cup UNION {Touches(items, recipes[r]) :
                              r \in {q \in 1..Len(recipes) :
                                        /\ recipes[q].active
                                        /\ Touches(items, recipes[q]) \cap S # {}}}
    IN  IF T = S THEN S ELSE Grow(items, recipes, T)

ComponentItems(items, recipes, i) == Grow(items, recipes, {i})

ComponentRecipes(items, recipes, i) ==
    {r \in RecipeIds(recipes) :
        /\ recipes[r + 1].active
        /\ Touches(items, recipes[r + 1]) \cap ComponentItems(items, recipes, i) # {}}

\* the factor a successful scale call applied
CallFactor == Div(call.target_rate, prev_items[call.item_node_id + 1].rate)

\* C3: after a successful scale_connected_component(i, target) the rate of
\* item i equals target, and every active item node and active recipe node
\* of the weakly-connected component of i has its rate / machines multiplied
\* by factor = target / (old rate of i).
C3_ScaleRetargetsComponent ==
    Did("scale", TRUE) =>
        /\ item_nodes[call.item_node_id + 1].rate = call.target_rate
        /\ \A i \in ComponentItems(prev_items, prev_recipes, call.item_node_id) :
              item_nodes[i + 1].rate = Mul(prev_items[i + 1].rate, CallFactor)
        /\ \A r \in ComponentRecipes(prev_items, prev_recipes, call.item_node_id) :
              recipe_nodes[r + 1].machines = Mul(prev_recipes[r + 1].machines, CallFactor)

\* C4: a successful scale_connected_component changes no rate and no
\* machine count outside the weakly-connected component of the starting
\* item, and anywhere it changes no name, no active flag, no in_ids or
\* out_ids entry, no recipe, and neither sequence length.
C4_ScaleFrame ==
    Did("scale", TRUE) =>
        /\ Len(item_nodes) = Len(prev_items)
        /\ Len(recipe_nodes) = Len(prev_recipes)
        /\ \A i \in ItemIds(prev_items) :
              /\ item_nodes[i + 1].name = prev_items[i + 1].name
              /\ item_nodes[i + 1].active = prev_items[i + 1].active
              /\ i \notin ComponentItems(prev_items, prev_recipes, call.item_node_id)
                    => item_nodes[i + 1].rate = prev_items[i + 1].rate
        /\ \A r \in RecipeIds(prev_recipes) :
              /\ recipe_nodes[r + 1].recipe = prev_recipes[r + 1].recipe
              /\ recipe_nodes[r + 1].machine_name = prev_recipes[r + 1].machine_name
              /\ recipe_nodes[r + 1].in_ids = prev_recipes[r + 1].in_ids
              /\ recipe_nodes[r + 1].out_ids = prev_recipes[r + 1].out_ids
              /\ recipe_nodes[r + 1].active = prev_recipes[r + 1].active
              /\ r \notin ComponentRecipes(prev_items, prev_recipes, call.item_node_id)
                    => recipe_nodes[r + 1].machines = prev_recipes[r + 1].machines

\* a rescaling by a factor other than 1 of a component with a recipe node,
\* beside another component with an active item, a tombstoned item and a
\* recipe node of its own
C4_Witness ==
    /\ Did("scale", TRUE)
    /\ CallFactor # Num(1)
    /\ ComponentRecipes(prev_items, prev_recipes, call.item_node_id) # {}
    /\ \E i \in ItemIds(prev_items) :
          /\ i \notin ComponentItems(prev_items, prev_recipes, call.item_node_id)
          /\ prev_items[i + 1].active
    /\ \E r \in RecipeIds(prev_recipes) :
          r \notin ComponentRecipes(prev_items, prev_recipes, call.item_node_id)

\* the values (rates, then machine counts) of the scaled component, before
\* and after the call
ComponentValues(items, recipes) ==
    LET ci == ComponentItems(prev_items, prev_recipes, call.item_node_id)
        cr == ComponentRecipes(prev_items, prev_recipes, call.item_node_id)
    IN  [n \in ({"item"} \X ci) \cup ({"recipe"} \X cr) |->
            IF n[1] = "item" THEN items[n[2] + 1].rate ELSE recipes[n[2] + 1].machines]

\* a / b = c / d, for b and d other than 0
SameRatio(a, b, c, d) ==
    a[1] * b[2] * d[1] * c[2] = c[1] * d[2] * b[1] * a[2]

\* C5 as stated: a successful scale_connected_component preserves the ratio
\* of the rates / machine counts of every pair of nodes of the scaled
\* component.
C5_ScalePreservesRatios ==
    Did("scale", TRUE) =>
        LET before == ComponentValues(prev_items, prev_recipes)
            after == ComponentValues(item_nodes, recipe_nodes)
        IN  \A x, y \in DOMAIN before :
                SameRatio(after[x], after[y], before[x], before[y])

\* the product of a value and the factor needs no rounding
ExactProduct(a, f) == IsFloat(Norm(a[1] * f[1], a[2] * f[2]))

\* C5 amended: a successful scale_connected_component preserves the ratio
\* of every pair of nodes of the scaled component whose products with the
\* factor are exactly representable; the other values are rounded products,
\* so their ratios are preserved only up to rounding.
C5_ScalePreservesExactRatios ==
    Did("scale", TRUE) =>
        LET before == ComponentValues(prev_items, prev_recipes)
            after == ComponentValues(item_nodes, recipe_nodes)
        IN  \A x, y \in DOMAIN before :
                (ExactProduct(before[x], CallFactor) /\ ExactProduct(before[y], CallFactor))
                    => SameRatio(after[x], after[y], before[x], before[y])

\* a rescaling by a factor other than 1 in which an item and a recipe node
\* with different values both have exact products
C5_Witness ==
    /\ Did("scale", TRUE)
    /\ CallFactor # Num(1)
    /\ LET before == ComponentValues(prev_items, prev_recipes) IN
       \E x, y \in DOMAIN before :
          /\ x[1] = "item" /\ y[1] = "recipe"
          /\ before[x] # before[y]
          /\ ExactProduct(before[x], CallFactor)
          /\ ExactProduct(before[y], CallFactor)

(* C6, C7 *)
\* the positions of a list that hold the first occurrence of their id
Firsts(ids) == {k \in 1..Len(ids) : \A j \in 1..(k - 1) : ids[j] # ids[k]}

\* the rates, as the call found them, of the distinct listed nodes, added in
\* list order from position k on
RECURSIVE SumFrom(_, _, _)
SumFrom(ids, k, acc) ==
    IF k > Len(ids) THEN acc
    ELSE SumFrom(ids, k + 1,
                 IF k \in Firsts(ids) THEN Add(acc, prev_items[ids[k] + 1].rate) ELSE acc)

\* the active recipe nodes that listed item i among their inputs before the call
PrevConsumers(i) ==
    {r \in RecipeIds(prev_recipes) :
        prev_recipes[r + 1].active /\ i \in Range(prev_recipes[r + 1].in_ids)}

\* C6: a successful merge_leaves(ids) keeps the first id of the caller's
\* order as the survivor, sets its rate to the sum of the pre-call rates of
\* the distinct listed nodes, rewrites every in_ids entry of every active
\* recipe node that names a dropped id to the survivor (and no other entry),
\* and tombstones every other listed node.
C6_MergePostcondition ==
    Did("merge", TRUE) =>
        LET ids == call.item_node_ids
            keep == ids[1]
            dropped == Range(ids) \ {keep}
        IN  /\ item_nodes[keep + 1].active
            /\ item_nodes[keep + 1].rate = SumFrom(ids, 1, Zero)
            /\ \A d \in dropped : ~item_nodes[d + 1].active
            /\ \A r \in RecipeIds(prev_recipes) :
                  prev_recipes[r + 1].active =>
                      /\ Len(recipe_nodes[r + 1].in_ids) = Len(prev_recipes[r + 1].in_ids)
                      /\ \A k \in 1..Len(prev_recipes[r + 1].in_ids) :
                            recipe_nodes[r + 1].in_ids[k] =
                                IF prev_recipes[r + 1].in_ids[k] \in dropped
                                THEN keep
                                ELSE prev_recipes[r + 1].in_ids[k]

\* two leaves of different rates, each consumed by a recipe node of its own
C6_Witness ==
    /\ Did("merge", TRUE)
    /\ \E a, b \in Range(call.item_node_ids) :
          /\ prev_items[a + 1].rate # prev_items[b + 1].rate
          /\ PrevConsumers(a) \cap PrevConsumers(b) = {}

\* the orders in which the ids of a set can be listed
Orders(S) ==
    {q \in [1..Cardinality(S) -> S] : \A i, j \in 1..Cardinality(S) : q[i] = q[j] => i = j}

ActiveCount(items) == Cardinality({i \in ItemIds(items) : items[i + 1].active})

\* the exact total of the active items' rates
RECURSIVE RateTotal(_, _)
RateTotal(items, i) ==
    IF i > Len(items) THEN Zero
    ELSE LET rest == RateTotal(items, i + 1)
             r == items[i].rate
         IN  IF items[i].active THEN Norm(r[1] * rest[2] + rest[1] * r[2], r[2] * rest[2])
             ELSE rest

\* merge_leaves on the graph the last call found, with the ids in order q
Reordered(q) == merge_leaves(prev_items, prev_recipes, q)

\* in every order the call succeeds, the survivor is the first id and the
\* other listed nodes are tombstoned, leaving the same number of active items
SameSurvivorRule(q) ==
    /\ Reordered(q).ok
    /\ Reordered(q).items[q[1] + 1].active
    /\ \A k \in 2..Len(q) : ~Reordered(q).items[q[k] + 1].active
    /\ ActiveCount(Reordered(q).items) = ActiveCount(item_nodes)

SameRates(q) ==
    /\ Reordered(q).items[q[1] + 1].rate = item_nodes[call.item_node_ids[1] + 1].rate
    /\ RateTotal(Reordered(q).items, 1) = RateTotal(item_nodes, 1)

Tombstoned(items, i) == i \in ItemIds(items) /\ ~items[i + 1].active

\* the ids the returned call named
Named ==
    IF call.op = "merge" THEN Range(call.item_node_ids) ELSE {call.item_node_id}

\* no adjacency list and no listed line mentions a tombstoned item, and a
\* tombstone is never lifted
TombstonesStayOut ==
    /\ \A i \in ItemIds(item_nodes) :
          Tombstoned(item_nodes, i) =>
              /\ build_adjacency(item_nodes, recipe_nodes).producers[i] = <<>>
              /\ build_adjacency(item_nodes, recipe_nodes).consumers[i] = <<>>
              /\ \A k \in 1..Len(list_active_items(item_nodes, recipe_nodes)) :
                    list_active_items(item_nodes, recipe_nodes)[k][1] # i
    /\ \A i \in ItemIds(prev_items) : Tombstoned(prev_items, i) => Tombstoned(item_nodes, i)

InvalidIdMessage ==
    IF call.op = "merge"
    THEN /\ Len(call.msg) = 2
         /\ call.msg[1] = "Invalid item node id: "
         /\ call.msg[2] \in Named
         /\ ~is_valid_item(prev_items, call.msg[2])
    ELSE call.msg = <<"Invalid item node id.">>

\* C8 as stated: a merged-away id never again appears in the adjacency maps
\* or among the listed active items, and every later expand,
\* scale_connected_component or merge_leaves naming it is rejected as an
\* invalid item id.
C8_MergedAwayIsInvalid ==
    /\ TombstonesStayOut
    /\ (pc = "returned" /\ \E i \in Named : Tombstoned(prev_items, i)) =>
          (~call.ok /\ InvalidIdMessage)

\* C8 amended: as stated, except that a merge_leaves list with fewer than
\* two distinct ids is rejected for that reason before any id is looked at.
C8_MergedAwayIsRejected ==
    /\ TombstonesStayOut
    /\ (pc = "returned" /\ \E i \in Named : Tombstoned(prev_items, i)) =>
          /\ ~call.ok
          /\ item_nodes = prev_items /\ recipe_nodes = prev_recipes
          /\ IF call.op = "merge" /\ Cardinality(Named) < 2
             THEN call.msg = <<"Specify at least two distinct item node IDs.">>
             ELSE InvalidIdMessage

\* an expand naming a merged-away id, refused although the item has no
\* producer
C8_Witness ==
    /\ Did("expand", FALSE)
    /\ Tombstoned(prev_items, call.item_node_id)
    /\ call.msg = <<"Invalid item node id.">>
    /\ Len(build_adjacency(prev_items, prev_recipes).producers[call.item_node_id]) = 0

(* C9, C10 *)
\* the listings of item i in the out_ids of active recipe nodes
Productions(items, recipes, i) ==
    {<<r, k>> \in RecipeIds(recipes) \X (1..MaxItems) :
        /\ recipes[r + 1].active
        /\ k <= Len(recipes[r + 1].out_ids)
        /\ recipes[r + 1].out_ids[k] = i}

\* C9: in every state reached from a graph without recipe nodes, every
\* active item node is an output of at most one active recipe node.
C9_AtMostOneProducer ==
    \A i \in ItemIds(item_nodes) :
        item_nodes[i + 1].active =>
            Cardinality(Productions(item_nodes, recipe_nodes, i)) <= 1

\* two produced items and a leaf that a merge gave two consumers
C9_Witness ==
    /\ Cardinality({i \in ItemIds(item_nodes) :
                       Cardinality(Productions(item_nodes, recipe_nodes, i)) = 1}) >= 2
    /\ \E i \in ItemIds(item_nodes) :
          Len(build_adjacency(item_nodes, recipe_nodes).consumers[i]) >= 2

\* C10: in every reachable state every active item node has rate > 0 and
\* every active recipe node has machines > 0; neither an operation nor the
\* initial target specification stores a zero or negative value.
C10_PositiveRates ==
    /\ \A i \in ItemIds(item_nodes) :
          item_nodes[i + 1].active => RLt(Zero, item_nodes[i + 1].rate)
    /\ \A r \in RecipeIds(recipe_nodes) :
          recipe_nodes[r + 1].active => RLt(Zero, recipe_nodes[r + 1].machines)

(* C11 *)
\* item i had a producer among the active recipe nodes when the call was made
ProducedBefore(i) ==
    /\ is_valid_item(prev_items, i)
    /\ Len(build_adjacency(prev_items, prev_recipes).producers[i]) > 0

ExpandReturned(i) == pc = "returned" /\ call.op = "expand" /\ call.item_node_id = i

RejectedUnchanged ==
    ~call.ok /\ item_nodes = prev_items /\ recipe_nodes = prev_recipes

\* C11: an expand of an active item that has a producing active recipe node
\* is rejected; and once expand(i, r) has succeeded, every later expand of
\* item i is rejected and changes nothing, whatever calls come in between.
C11_ExpandOnlyOnce ==
    /\ [](\A i \in ItemIds(prev_items) :
            (ExpandReturned(i) /\ ProducedBefore(i)) =>
                (RejectedUnchanged /\
                 call.msg = <<"This node is already produced. Expand a different node.">>))
    /\ \A i \in 0..(MaxItems - 1) :
          []((ExpandReturned(i) /\ call.ok) =>
                [](pc = "prompt" => [](ExpandReturned(i) => RejectedUnchanged)))

\* a second expand of an item, refused after a scale and a merge in its
\* component
C11_Witness ==
    /\ pc = "returned" /\ call.op = "expand" /\ ~call.ok
    /\ ProducedBefore(call.item_node_id)
    /\ nscaled > 0
    /\ \E i \in ItemIds(item_nodes) : ~item_nodes[i + 1].active

(* C12 *)
\* the expand that returned named a valid item without a producer
ExpandOfFreeItem ==
    /\ pc = "returned" /\ call.op = "expand"
    /\ is_valid_item(prev_items, call.item_node_id)
    /\ ~ProducedBefore(call.item_node_id)

\* C12: an expand whose recipe names the item in no output slot, or in more
\* than one, is rejected (never resolved by taking the first match); so is
\* one whose matched output has a declared rate <= 0, and one whose
\* item rate / matched rate is <= 0.
C12_ExpandRejectsBadMatch ==
    ExpandOfFreeItem =>
        LET item == prev_items[call.item_node_id + 1]
            slots == Matches(call.recipe, item.name)
            m == CHOOSE k \in slots : TRUE
            out_rate == call.recipe.outs[m][2]
        IN  /\ slots = {} =>
                (RejectedUnchanged /\
                 call.msg = <<"Selected recipe does not produce this item.">>)
            /\ Cardinality(slots) > 1 =>
                (RejectedUnchanged /\
                 call.msg = <<"Recipe has duplicated outputs for this item; cannot disambiguate.">>)
            /\ (Cardinality(slots) = 1 /\ RLe(out_rate, Zero)) =>
                (RejectedUnchanged /\ call.msg = <<"Invalid recipe output rate.">>)
            /\ (Cardinality(slots) = 1 /\ RLt(Zero, out_rate)
                    /\ RLe(Div(item.rate, out_rate), Zero)) =>
                (RejectedUnchanged /\ call.msg = <<"Target node rate must be positive.">>)

\* a recipe with two Plate outputs refused for a Plate of positive rate,
\* in a graph where another recipe has been applied
C12_Witness ==
    /\ ExpandOfFreeItem
    /\ Cardinality(Matches(call.recipe, prev_items[call.item_node_id + 1].name)) = 2
    /\ RLt(Zero, prev_items[call.item_node_id + 1].rate)
    /\ Len(recipe_nodes) > 0

(* C13 *)
\* C13: a successful expand only appends: every item node and recipe node
\* present before the call is unchanged at its index, the item sequence
\* grows by len(recipe.ins) + len(recipe.outs) - 1 and the recipe sequence
\* by 1.
C13_ExpandOnlyAppends ==
    Did("expand", TRUE) =>
        /\ Len(item_nodes) =
              Len(prev_items) + Len(call.recipe.ins) + Len(call.recipe.outs) - 1
        /\ Len(recipe_nodes) = Len(prev_recipes) + 1
        /\ \A i \in 1..Len(prev_items) : item_nodes[i] = prev_items[i]
        /\ \A r \in 1..Len(prev_recipes) : recipe_nodes[r] = prev_recipes[r]

\* an expand in a graph that already holds a recipe node and a second target
C13_Witness ==
    /\ Did("expand", TRUE)
    /\ Len(prev_recipes) > 0
    /\ Len(prev_items) >= 3

(* C14 *)
\* a step in which one of the three graph operations is called and returns
GraphCall ==
    pc = "prompt" /\ pc' = "returned" /\ call'.op \in {"expand", "scale", "merge"}

\* C14: no call of expand, scale_connected_component or merge_leaves makes
\* either node sequence shorter, changes the name stored at an item index or
\* the (recipe, out_ids) stored at a recipe index, or brings a tombstoned
\* index back into use.
C14_IndicesAreStable ==
    [][GraphCall =>
          /\ Len(item_nodes') >= Len(item_nodes)
          /\ Len(recipe_nodes') >= Len(recipe_nodes)
          /\ \A i \in 1..Len(item_nodes) :
                /\ item_nodes'[i].name = item_nodes[i].name
                /\ ~item_nodes[i].active => ~item_nodes'[i].active
          /\ \A r \in 1..Len(recipe_nodes) :
                /\ recipe_nodes'[r].recipe = recipe_nodes[r].recipe
                /\ recipe_nodes'[r].out_ids = recipe_nodes[r].out_ids
                /\ ~recipe_nodes[r].active => ~recipe_nodes'[r].active]_vars

\* a second merge has returned in a graph that was expanded and scaled
C14_Witness ==
    /\ Did("merge", TRUE)
    /\ nscaled > 0
    /\ \E i \in ItemIds(prev_items) : ~prev_items[i + 1].active

(* C15 *)
\* C15: the success message of scale_connected_component reports the number
\* of item nodes and of recipe nodes whose rate / machines were multiplied,
\* and these are the active item nodes and active recipe nodes of the
\* starting item's weakly-connected component; for an item that no active
\* recipe node lists the call succeeds, reports 1 and 0 and multiplies that
\* item alone.
C15_ScaleReportsComponent ==
    Did("scale", TRUE) =>
        LET start == call.item_node_id
            its == ComponentItems(prev_items, prev_recipes, start)
            rts == ComponentRecipes(prev_items, prev_recipes, start)
            adj == build_adjacency(prev_items, prev_recipes)
        IN  /\ call.msg[3] = Cardinality(its)
            /\ call.msg[4] = Cardinality(rts)
            /\ \A i \in ItemIds(prev_items) :
                  /\ i \in its => prev_items[i + 1].active
                  /\ item_nodes[i + 1].rate =
                        IF i \in its THEN Mul(prev_items[i + 1].rate, call.msg[2])
                        ELSE prev_items[i + 1].rate
            /\ \A r \in RecipeIds(prev_recipes) :
                  /\ r \in rts => prev_recipes[r + 1].active
                  /\ recipe_nodes[r + 1].machines =
                        IF r \in rts THEN Mul(prev_recipes[r + 1].machines, call.msg[2])
                        ELSE prev_recipes[r + 1].machines
            /\ (adj.producers[start] = <<>> /\ adj.consumers[start] = <<>>) =>
                  (call.msg[3] = 1 /\ call.msg[4] = 0)

\* a produced item is scaled by a factor other than 1 after a merge in its
\* component: fewer nodes are reported than the sequences hold
C15_Witness ==
    /\ Did("scale", TRUE)
    /\ call.msg[2] # Num(1)
    /\ call.msg[3] >= 2 /\ call.msg[3] < Len(item_nodes)
    /\ call.msg[4] >= 1
    /\ \E i \in ItemIds(prev_items) : ~prev_items[i + 1].active
    /\ Len(build_adjacency(prev_items, prev_recipes).producers[call.item_node_id]) > 0

\* the edge case: a lone target is scaled beside an expanded one
C15_IsolatedItemScaled ==
    /\ Did("scale", TRUE)
    /\ call.msg[3] = 1 /\ call.msg[4] = 0
    /\ Len(recipe_nodes) > 0

(* C16 *)
\* C16: scale_connected_component is rejected, with no change, when the id
\* is not a valid active item, when target_rate <= 0, or when the item's
\* current rate is <= 0; in every other case it succeeds.
C16_ScalePreconditions ==
    (pc = "returned" /\ call.op = "scale") =>
        LET i == call.item_node_id
            refused == \/ ~is_valid_item(prev_items, i)
                       \/ RLe(call.target_rate, Zero)
                       \/ RLe(prev_items[i + 1].rate, Zero)
        IN  /\ call.ok = ~refused
            /\ refused => RejectedUnchanged
            /\ ~is_valid_item(prev_items, i) => call.msg = <<"Invalid item node id.">>
            /\ (is_valid_item(prev_items, i) /\ RLe(call.target_rate, Zero)) =>
                  call.msg = <<"Target rate must be positive.">>
            /\ (is_valid_item(prev_items, i) /\ RLt(Zero, call.target_rate)
                    /\ RLe(prev_items[i + 1].rate, Zero)) =>
                  call.msg = <<"Current node rate is zero; cannot scale by ratio.">>

\* a target of rate 0 is asked to take a positive rate, beside an expanded
\* target
C16_Witness ==
    /\ Did("scale", FALSE)
    /\ call.msg = <<"Current node rate is zero; cannot scale by ratio.">>
    /\ RLt(Zero, call.target_rate)
    /\ Len(recipe_nodes) > 0

(* C17 *)
\* the listed id at the earliest position whose id is no valid item
FirstBadId(items, ids) ==
    ids[CHOOSE k \in 1..Len(ids) :
            /\ ~is_valid_item(items, ids[k])
            /\ \A j \in 1..(k - 1) : is_valid_item(items, ids[j])]

\* C17: merge_leaves is rejected, with no change, when the list holds fewer
\* than two distinct ids, when a listed id is out of range or tombstoned, or
\* when the listed item nodes do not all have one name.
C17_MergeRejectsBadLists ==
    (pc = "returned" /\ call.op = "merge") =>
        LET ids == call.item_node_ids
            listed == Range(ids)
            invalid == {i \in listed : ~is_valid_item(prev_items, i)}
        IN  /\ Cardinality(listed) < 2 =>
                (RejectedUnchanged /\
                 call.msg = <<"Specify at least two distinct item node IDs.">>)
            /\ (Cardinality(listed) >= 2 /\ invalid # {}) =>
                (RejectedUnchanged /\
                 call.msg = <<"Invalid item node id: ", FirstBadId(prev_items, ids)>>)
            /\ (Cardinality(listed) >= 2 /\ invalid = {}
                    /\ Cardinality({prev_items[i + 1].name : i \in listed}) # 1) =>
                (RejectedUnchanged /\
                 call.msg = <<"Only same-name item nodes can be merged.">>)

\* a leaf is listed together with an active item of another name
C17_Witness ==
    /\ Did("merge", FALSE)
    /\ call.msg = <<"Only same-name item nodes can be merged.">>
    /\ \E i \in Range(call.item_node_ids) :
          Len(build_adjacency(prev_items, prev_recipes).consumers[i]) > 0

(* C18 *)
\* item i, valid when the call was made, was then no leaf: some active
\* recipe node produced it, or none consumed it
ProducedThen(i) == Productions(prev_items, prev_recipes, i) # {}

UnconsumedThen(i) == PrevConsumers(i) = {}

\* C18: merge_leaves is rejected, with no change, when a listed item node
\* has a producer among the active recipe nodes or has no consumer among
\* them; so no merge tombstones or re-rates a produced node.
C18_MergeRejectsNonLeaves ==
    (pc = "returned" /\ call.op = "merge") =>
        LET listed == Range(call.item_node_ids)
            bad == {i \in listed : /\ is_valid_item(prev_items, i)
                                   /\ ProducedThen(i) \/ UnconsumedThen(i)}
        IN  /\ bad # {} => RejectedUnchanged
            /\ (bad # {} /\ Cardinality(listed) >= 2
                    /\ (\A i \in listed : is_valid_item(prev_items, i))
                    /\ Cardinality({prev_items[j + 1].name : j \in listed}) = 1) =>
                  /\ Len(call.msg) = 2
                  /\ call.msg[2] \in bad
                  /\ call.msg[1] =
                        IF ProducedThen(call.msg[2])
                        THEN "Item node is not a leaf (already has producer): "
                        ELSE "Item node has no consumers: "
            /\ \A i \in ItemIds(prev_items) :
                  (prev_items[i + 1].active /\ ProducedThen(i)) =>
                      item_nodes[i + 1] = prev_items[i + 1]

\* an expanded target is listed with an unexpanded target of the same name
C18_Witness ==
    /\ Did("merge", FALSE)
    /\ Len(call.msg) = 2
    /\ call.msg[1] = "Item node is not a leaf (already has producer): "
    /\ Cardinality(Range(call.item_node_ids)) >= 2

(* C19 *)
\* the active recipe nodes that list item i among their inputs now
NowConsumers(i) ==
    {r \in RecipeIds(recipe_nodes) :
        recipe_nodes[r + 1].active /\ i \in Range(recipe_nodes[r + 1].in_ids)}

\* C19: a successful merge_leaves loses no consumer edge: the recipe nodes
\* consuming the survivor after the call are exactly those that consumed one
\* of the merged nodes before it, and every recipe node has as many in_ids
\* entries as before.
C19_MergeKeepsConsumerEdges ==
    Did("merge", TRUE) =>
        /\ NowConsumers(call.item_node_ids[1]) =
              UNION {PrevConsumers(i) : i \in Range(call.item_node_ids)}
        /\ Len(recipe_nodes) = Len(prev_recipes)
        /\ \A r \in 1..Len(prev_recipes) :
              Len(recipe_nodes[r].in_ids) = Len(prev_recipes[r].in_ids)

\* the survivor takes over a consumer it did not have, and now has two
C19_Witness ==
    /\ Did("merge", TRUE)
    /\ Cardinality(NowConsumers(call.item_node_ids[1])) = 2
    /\ Cardinality(PrevConsumers(call.item_node_ids[1])) = 1

(* C20 *)
\* C20: in every reachable state every recipe node has as many in_ids as
\* its recipe has input slots and as many out_ids as it has output slots.
C20_SlotCounts ==
    \A r \in 1..Len(recipe_nodes) :
        /\ Len(recipe_nodes[r].in_ids) = Len(recipe_nodes[r].recipe.ins)
        /\ Len(recipe_nodes[r].out_ids) = Len(recipe_nodes[r].recipe.outs)

\* a recipe node with three input slots after a merge made two of its
\* in_ids entries equal
C20_Witness ==
    \E r \in 1..Len(recipe_nodes) :
        /\ Len(recipe_nodes[r].recipe.ins) = 3
        /\ Cardinality(Range(recipe_nodes[r].in_ids)) < 3
        /\ \E i \in ItemIds(item_nodes) : ~item_nodes[i + 1].active

(* C21, C22, C23 *)
\* C21 as stated: no later expand, scale or merge changes a recipe node's
\* recipe, machine_name, in_ids, out_ids or active flag; only machines is
\* ever changed, and only by scale_connected_component.
C21_RecipeNodeFrozen ==
    [][GraphCall =>
          \A r \in 1..Len(recipe_nodes) :
              /\ recipe_nodes'[r].recipe = recipe_nodes[r].recipe
              /\ recipe_nodes'[r].machine_name = recipe_nodes[r].machine_name
              /\ recipe_nodes'[r].in_ids = recipe_nodes[r].in_ids
              /\ recipe_nodes'[r].out_ids = recipe_nodes[r].out_ids
              /\ recipe_nodes'[r].active = recipe_nodes[r].active
              /\ recipe_nodes'[r].machines # recipe_nodes[r].machines =>
                    (call'.op = "scale" /\ call'.ok)]_vars

\* C21 amended: a recipe node's recipe, machine_name, out_ids and active
\* flag are never changed; machines is changed only by a successful
\* scale_connected_component; in_ids is changed only by a successful
\* merge_leaves, entry by entry from a dropped id to the survivor.
C21_RecipeNodeFrozenButInputs ==
    [][GraphCall =>
          \A r \in 1..Len(recipe_nodes) :
              /\ recipe_nodes'[r].recipe = recipe_nodes[r].recipe
              /\ recipe_nodes'[r].machine_name = recipe_nodes[r].machine_name
              /\ recipe_nodes'[r].out_ids = recipe_nodes[r].out_ids
              /\ recipe_nodes'[r].active = recipe_nodes[r].active
              /\ recipe_nodes'[r].machines # recipe_nodes[r].machines =>
                    (call'.op = "scale" /\ call'.ok)
              /\ Len(recipe_nodes'[r].in_ids) = Len(recipe_nodes[r].in_ids)
              /\ \A k \in 1..Len(recipe_nodes[r].in_ids) :
                    recipe_nodes'[r].in_ids[k] # recipe_nodes[r].in_ids[k] =>
                        /\ call'.op = "merge" /\ call'.ok
                        /\ recipe_nodes[r].in_ids[k] \in
                              Range(call'.item_node_ids) \ {call'.item_node_ids[1]}
                        /\ recipe_nodes'[r].in_ids[k] = call'.item_node_ids[1]]_vars

\* a merge has rewritten an input of a recipe node that a scale had rescaled
C21_Witness ==
    /\ Did("merge", TRUE)
    /\ nscaled > 0
    /\ \E r \in 1..Len(prev_recipes) :
          /\ recipe_nodes[r].in_ids # prev_recipes[r].in_ids
          /\ Cardinality(Range(recipe_nodes[r].in_ids)) > 1

\* C22: no sequence of expand, scale_connected_component and merge_leaves
\* calls sets a recipe node's active flag to False: every recipe node is
\* active in every state.
C22_RecipeNodesStayActive ==
    \A r \in 1..Len(recipe_nodes) : recipe_nodes[r].active

\* two recipe nodes, one rescaled, whose input leaves have been merged
C22_Witness ==
    /\ Len(recipe_nodes) >= 2
    /\ nscaled > 0
    /\ \E i \in ItemIds(item_nodes) : ~item_nodes[i + 1].active

\* the ids the returned call named that were no valid item when it was made
InvalidNamed ==
    IF pc = "returned" /\ call.op \in {"expand", "scale", "merge"}
    THEN {i \in Named : \/ i < 0
                         \/ i >= Len(prev_items)
                         \/ Tombstoned(prev_items, i)}
    ELSE {}

\* C23: for every id that is negative, at or past the end of the item
\* sequence, or the index of a tombstoned item node, expand,
\* scale_connected_component and merge_leaves return (False, message) and
\* change nothing.
C23_InvalidIdsAreRefused ==
    InvalidNamed # {} =>
        /\ call.ok = FALSE
        /\ Len(call.msg) >= 1
        /\ item_nodes = prev_items
        /\ recipe_nodes = prev_recipes

\* a merge list of a negative id, an id past the end and a valid leaf
C23_Witness ==
    /\ Did("merge", FALSE)
    /\ \E i \in Named : i < 0
    /\ \E i \in Named : i >= Len(prev_items)
    /\ \E i \in Named : is_valid_item(prev_items, i) /\ PrevConsumers(i) # {}

(* C27 *)
\* the recipe nodes, active or not, that list item i in in_ids / out_ids now
ListedAsInput(i) ==
    {r \in RecipeIds(recipe_nodes) : i \in Range(recipe_nodes[r + 1].in_ids)}

ListedAsOutput(i) ==
    {r \in RecipeIds(recipe_nodes) : i \in Range(recipe_nodes[r + 1].out_ids)}

\* C27: right after a successful expand every newly created item node is
\* either an input, with no producer and the new recipe node as its only
\* consumer, or a byproduct, with no consumer and the new recipe node as its
\* only producer; no earlier recipe node refers to a new node.
C27_NewNodesAreFresh ==
    Did("expand", TRUE) =>
        LET new_recipe == Len(prev_recipes)
            new_items == Len(prev_items)..(Len(item_nodes) - 1)
            node == recipe_nodes[new_recipe + 1]
        IN  /\ Len(recipe_nodes) = Len(prev_recipes) + 1
            /\ new_items =
                  Range(node.in_ids) \cup (Range(node.out_ids) \ {call.item_node_id})
            /\ \A n \in new_items :
                  /\ item_nodes[n + 1].active
                  /\ \/ ListedAsInput(n) = {new_recipe} /\ ListedAsOutput(n) = {}
                     \/ ListedAsInput(n) = {} /\ ListedAsOutput(n) = {new_recipe}
                  /\ Count(node.in_ids \o node.out_ids, n) = 1

\* an expand with a byproduct and an input
C27_Witness ==
    /\ Did("expand", TRUE)
    /\ Len(call.recipe.outs) = 2
    /\ \E n \in Len(prev_items)..(Len(item_nodes) - 1) : ListedAsOutput(n) # {}
    /\ \E n \in Len(prev_items)..(Len(item_nodes) - 1) : ListedAsInput(n) # {}

(* C29 *)
\* C29: in every state reached from a graph without recipe nodes, every id
\* in in_ids or out_ids of an active recipe node is the index of an active
\* item node.
C29_NoDanglingIds ==
    \A r \in 1..Len(recipe_nodes) :
        recipe_nodes[r].active =>
            \A i \in Range(recipe_nodes[r].in_ids) \cup Range(recipe_nodes[r].out_ids) :
                /\ 0 <= i /\ i < Len(item_nodes)
                /\ item_nodes[i + 1].active

\* tombstones exist, and a recipe node lists a survivor twice
C29_Witness ==
    /\ \E i \in ItemIds(item_nodes) : ~item_nodes[i + 1].active
    /\ \E r \in 1..Len(recipe_nodes) :
          \E j, k \in 1..Len(recipe_nodes[r].in_ids) :
              j # k /\ recipe_nodes[r].in_ids[j] = recipe_nodes[r].in_ids[k]

(* C30 *)
\* the (recipe node, input slot) pairs of active recipe nodes whose in_ids
\* entry is item i
InputSlots(i) ==
    {<<r, k>> \in (1..Len(recipe_nodes)) \X (1..MaxItems) :
        /\ recipe_nodes[r].active
        /\ k <= Len(recipe_nodes[r].in_ids)
        /\ recipe_nodes[r].in_ids[k] = i}

\* machines * declared input rate, added up over a set of such pairs
RECURSIVE Demand(_)
Demand(S) ==
    IF S = {} THEN Zero
    ELSE LET p == CHOOSE q \in S : TRUE
         IN  Add(Mul(recipe_nodes[p[1]].machines, recipe_nodes[p[1]].recipe.ins[p[2]][2]),
                 Demand(S \ {p}))

\* C30: with exact arithmetic, in every state reached from a graph without
\* recipe nodes, the item in output slot k of an active recipe node R has
\* rate R.machines * declared output rate k, and every active item node with
\* a consumer has as its rate the sum, over the input slots that name it, of
\* machines * declared input rate.
C30_FlowBalance ==
    /\ \A r \in 1..Len(recipe_nodes) :
          recipe_nodes[r].active =>
              \A k \in 1..Len(recipe_nodes[r].out_ids) :
                  item_nodes[recipe_nodes[r].out_ids[k] + 1].rate =
                      Mul(recipe_nodes[r].machines, recipe_nodes[r].recipe.outs[k][2])
    /\ \A i \in ItemIds(item_nodes) :
          (item_nodes[i + 1].active /\ InputSlots(i) # {}) =>
              item_nodes[i + 1].rate = Demand(InputSlots(i))

\* a rescaled component whose three input slots now draw on one survivor,
\* and a second recipe node with a byproduct or another target
C30_Witness ==
    /\ arith = "exact"
    /\ nscaled > 0
    /\ \E i \in ItemIds(item_nodes) : Cardinality(InputSlots(i)) >= 2
    /\ \E r \in 1..Len(recipe_nodes) : recipe_nodes[r].machines \notin {Num(1), Num(3)}


(* C24, C25 *)
\* the lines that make the loop call the core: expand, scale, merge
CoreOps == {"expand", "scale", "merge"}

\* a step of the shell in which the core was called
CoreStep == pc = "prompt" /\ call'.op \in CoreOps

\* a step in which the shell answered a line of the given commands itself
AnswerStep(cmds) == pc = "prompt" /\ call'.op = "shell" /\ call'.cmd \in cmds

\* the graph and label the loop holds before the step
Before == SessionState(GenGraph(item_nodes, recipe_nodes), session_label)

GraphSame == item_nodes' = item_nodes /\ recipe_nodes' = recipe_nodes

\* C24: in the shell, an expand, scale or merge command that is refused, by
\* the core or by the shell's own checks before it, leaves the live graph
\* and the undo stack exactly as they were, and a command the core accepts
\* grows the undo stack by exactly one snapshot, which holds the graph as it
\* was before the command
C24_RefusedKeepsAcceptedPushes ==
    [][/\ (CoreStep /\ ~call'.ok) => (GraphSame /\ history' = history)
       /\ AnswerStep(CoreOps) => (GraphSame /\ history' = history)
       /\ (CoreStep /\ call'.ok) =>
             /\ Len(history') = Len(history) + 1
             /\ SubSeq(history', 1, Len(history)) = history
             /\ history'[Len(history')].graph = Before.graph]_vars

\* a command refused by the core while the undo stack holds the snapshot of
\* an earlier accepted command that changed the graph
C24_Witness ==
    /\ pc = "returned"
    /\ call.op \in CoreOps
    /\ ~call.ok
    /\ Len(history) >= 1
    /\ history[Len(history)].graph # GenGraph(item_nodes, recipe_nodes)
    /\ history[Len(history)].graph.recipe_nodes # <<>>

\* C25: undo pops the newest snapshot and makes its graph and label the live
\* ones; every accepted expand, scale, merge and every resume pushes the
\* graph and label it found, so undo after it restores exactly these; no
\* step changes a snapshot that stays on the stack; with an empty stack undo
\* changes nothing; and whenever the stack is empty again, as after k undos
\* of k successful commands, the graph is the one the run started with
C25_UndoRestoresByValue ==
    /\ [][/\ (AnswerStep({"undo"}) /\ history # <<>>) =>
                /\ GenGraph(item_nodes', recipe_nodes') = history[Len(history)].graph
                /\ session_label' = history[Len(history)].label
                /\ history' = SubSeq(history, 1, Len(history) - 1)
          /\ (AnswerStep({"undo"}) /\ history = <<>>) =>
                (GraphSame /\ session_label' = session_label /\ history' = history)
          /\ ((CoreStep /\ call'.ok) \/ AnswerStep({"resume"})) =>
                history' = Append(history, Before)
          /\ \A k \in 1..Len(history) : k <= Len(history') => history'[k] = history[k]
         ]_vars
    /\ \A t \in SeqsUpTo(TargetNames \X InitRates, MaxTargets) :
          LET g == GenGraph([k \in 1..Len(t) |-> ItemNode(t[k][1], t[k][2])], <<>>) IN
          (GenGraph(item_nodes, recipe_nodes) = g)
             => [](history = <<>> => GenGraph(item_nodes, recipe_nodes) = g)

\* an undo that brought back a graph different from the one it replaced,
\* with an older snapshot still on the stack
C25_Witness ==
    /\ pc = "returned"
    /\ call.op = "shell"
    /\ call.cmd = "undo"
    /\ call.msg = <<"Undone.">>
    /\ Len(history) >= 1
    /\ GenGraph(item_nodes, recipe_nodes) # GenGraph(prev_items, prev_recipes)
    /\ recipe_nodes # <<>>


(* C26 *)
\* the graph read back from its own dictionary
RoundTrip(graph) == graph_from_dict(graph_to_dict(graph))

\* C26: graph_from_dict(graph_to_dict(g)) equals g for every graph g the
\* session comes to hold: as many item and recipe nodes, and at every index the same
\* name, rate, active flag, machines, machine_name, in_ids, out_ids and
\* recipe data, so a tombstone comes back as a tombstone at its index and
\* the out_ids of a multi-output recipe node keep their order
C26_RoundTripIsIdentity ==
    LET g == GenGraph(item_nodes, recipe_nodes)
        back == RoundTrip(g)
    IN  /\ Len(back.item_nodes) = Len(g.item_nodes)
        /\ Len(back.recipe_nodes) = Len(g.recipe_nodes)
        /\ \A i \in 1..Len(g.item_nodes) : back.item_nodes[i] = g.item_nodes[i]
        /\ \A r \in 1..Len(g.recipe_nodes) : back.recipe_nodes[r] = g.recipe_nodes[r]
        /\ back = g

\* the live graph holds a tombstoned item node, a recipe node with two
\* outputs and a rate that is no integer, and reads back as itself
C26_Witness ==
    /\ \E i \in 1..Len(item_nodes) : ~item_nodes[i].active
    /\ \E i \in 1..Len(item_nodes) : item_nodes[i].active /\ item_nodes[i].rate[2] # 1
    /\ \E r \in 1..Len(recipe_nodes) :
          /\ Len(recipe_nodes[r].out_ids) = 2
          /\ recipe_nodes[r].out_ids[1] > recipe_nodes[r].out_ids[2]
    /\ RoundTrip(GenGraph(item_nodes, recipe_nodes)) = GenGraph(item_nodes, recipe_nodes)


(* C28 *)
\* the shell has just printed the lines of list_active_items
Listed == pc = "returned" /\ call.op = "shell" /\ call.cmd = "nodes"

\* the tags of a printed line
Tagged(line, tag) == \E k \in 1..Len(line[4]) : line[4][k] = tag

\* C28: list_active_items lists exactly the active item nodes, in index
\* order, each with its name and rate; a line is tagged "expandable" if and
\* only if no active recipe node has the item among its outputs, and "leaf"
\* if and only if, besides, an active recipe node has it among its inputs;
\* so a leaf is always expandable too; and the node sequences are left as
\* they were
C28_ListingClassifiesActiveItems ==
    Listed =>
        LET lines == call.msg IN
        /\ {lines[k][1] : k \in 1..Len(lines)}
              = {i \in ItemIds(item_nodes) : item_nodes[i + 1].active}
        /\ \A k \in 1..(Len(lines) - 1) : lines[k][1] < lines[k + 1][1]
        /\ \A k \in 1..Len(lines) :
              LET i == lines[k][1] IN
              /\ lines[k][2] = item_nodes[i + 1].name
              /\ lines[k][3] = item_nodes[i + 1].rate
              /\ Tagged(lines[k], "expandable")
                    <=> Productions(item_nodes, recipe_nodes, i) = {}
              /\ Tagged(lines[k], "leaf")
                    <=> (Productions(item_nodes, recipe_nodes, i) = {}
                         /\ NowConsumers(i) # {})
              /\ Tagged(lines[k], "leaf") => Tagged(lines[k], "expandable")
        /\ item_nodes = prev_items
        /\ recipe_nodes = prev_recipes

\* a listing that skips a tombstone and shows a produced item without tags
\* and a leaf, of a graph with several recipe nodes
C28_Witness ==
    /\ Listed
    /\ Len(call.msg) < Len(item_nodes)
    /\ \E k \in 1..Len(call.msg) : call.msg[k][4] = <<>>
    /\ \E k \in 1..Len(call.msg) : call.msg[k][4] = <<"expandable", "leaf">>
    /\ Len(recipe_nodes) > 1

(* C31 *)
\* the distinct ids of the merge that has just returned
MergedIds == Range(call.item_node_ids)

\* the merge joined leaves that lay in different connected components
CrossMerge ==
    /\ Did("merge", TRUE)
    /\ \E a \in MergedIds, b \in MergedIds :
          b \notin ComponentItems(prev_items, prev_recipes, a)

\* the item nodes of the components the merge joined
FormerItems ==
    UNION {ComponentItems(prev_items, prev_recipes, a) : a \in MergedIds}

\* a successful scale started from an item of S
ScaledFrom(S) == Did("scale", TRUE) /\ call.item_node_id \in S

\* the call multiplied every active item node of S, and every recipe node
\* producing one, by its factor
AllScaled(S) ==
    /\ \A i \in S \cap ItemIds(prev_items) :
          prev_items[i + 1].active =>
             item_nodes[i + 1].rate = Mul(prev_items[i + 1].rate, CallFactor)
    /\ \A r \in RecipeIds(prev_recipes) :
          (prev_recipes[r + 1].active /\ Range(prev_recipes[r + 1].out_ids) \cap S # {}) =>
             recipe_nodes[r + 1].machines = Mul(prev_recipes[r + 1].machines, CallFactor)

\* C31: after a successful merge_leaves of leaves that lay in different
\* connected components, every later successful scale_connected_component
\* started from an item of either former component multiplies the rate of
\* every active item node and the machines of every recipe node of both
\* former components by the factor of the call
C31_MergeJoinsComponents ==
    \A S \in SUBSET (0..(MaxItems - 1)) :
        []((CrossMerge /\ FormerItems = S) => [](ScaledFrom(S) => AllScaled(S)))

\* a scale by a factor other than one, started from a produced item, of a
\* graph in which one leaf feeds two recipe nodes
C31_Witness ==
    /\ Did("scale", TRUE)
    /\ CallFactor # Num(1)
    /\ Productions(prev_items, prev_recipes, call.item_node_id) # {}
    /\ \E i \in ItemIds(prev_items) :
          /\ prev_items[i + 1].active
          /\ \E r \in RecipeIds(prev_recipes), q \in RecipeIds(prev_recipes) :
                /\ r # q
                /\ i \in Range(prev_recipes[r + 1].in_ids)
                /\ i \in Range(prev_recipes[q + 1].in_ids)
    /\ \A r \in RecipeIds(recipe_nodes) :
          recipe_nodes[r + 1].machines = Mul(prev_recipes[r + 1].machines, CallFactor)

(* C32 *)
\* a step in which expand, scale_connected_component or merge_leaves returns
CoreReturns == pc = "prompt" /\ pc' = "returned"

\* the ids the call that returns in this step names for expand or merge
NamedNext ==
    IF call'.op = "merge" THEN Range(call'.item_node_ids)
    ELSE IF call'.op = "expand" THEN {call'.item_node_id}
    ELSE {}

\* C32: an item node that has a producer keeps it through every call of
\* expand, scale_connected_component and merge_leaves: after the call the
\* node is still active and is produced by the same single recipe node in
\* the same output slot as before; and an expand of it, or a merge_leaves
\* naming it, is refused
C32_ProducerIsKept ==
    [][CoreReturns =>
          \A i \in ItemIds(item_nodes) :
              Productions(item_nodes, recipe_nodes, i) # {} =>
                 /\ Cardinality(Productions(item_nodes, recipe_nodes, i)) = 1
                 /\ item_nodes'[i + 1].active
                 /\ Productions(item_nodes', recipe_nodes', i)
                       = Productions(item_nodes, recipe_nodes, i)
                 /\ i \in NamedNext => ~call'.ok]_vars

\* a merge refused because it names a produced item, in a graph that was
\* merged and scaled before and in which that item has its one producer
C32_Witness ==
    /\ Did("merge", FALSE)
    /\ \E i \in Range(call.item_node_ids) \cap ItemIds(item_nodes) :
          /\ Cardinality(Productions(item_nodes, recipe_nodes, i)) = 1
          /\ Len(call.item_node_ids) > 1
          /\ call.item_node_ids[1] # i
          /\ Cardinality(Productions(item_nodes, recipe_nodes, call.item_node_ids[1])) = 0
          /\ is_valid_item(item_nodes, call.item_node_ids[1])
    /\ nscaled > 0
    /\ \E j \in ItemIds(item_nodes) : ~item_nodes[j + 1].active

(* C33 *)
\* the item nodes whose active flag the step clears
Cleared ==
    {i \in ItemIds(item_nodes) : item_nodes[i + 1].active /\ ~item_nodes'[i + 1].active}

\* C33: a tombstoned item node stays as it is through every call of expand,
\* scale_connected_component and merge_leaves: its active flag stays False
\* and its name and rate are not changed; a step clears active flags only
\* when a merge_leaves succeeds, and then it clears exactly one less than the
\* number of distinct ids of the call
C33_TombstonesArePermanent ==
    [][/\ \A i \in ItemIds(item_nodes) :
             ~item_nodes[i + 1].active =>
                (i \in ItemIds(item_nodes') /\ item_nodes'[i + 1] = item_nodes[i + 1])
       /\ Cardinality(Cleared) =
             IF CoreReturns /\ call'.op = "merge" /\ call'.ok
             THEN Cardinality(Range(call'.item_node_ids)) - 1
             ELSE 0]_vars

\* a successful scale by a factor other than one of the component that the
\* survivor of an earlier merge belongs to, with the tombstone left alone
C33_Witness ==
    /\ Did("scale", TRUE)
    /\ CallFactor # Num(1)
    /\ \E i \in ItemIds(prev_items) :
          /\ ~prev_items[i + 1].active
          /\ prev_items[i + 1].rate # Zero
          /\ item_nodes[i + 1] = prev_items[i + 1]
    /\ \A i \in ItemIds(prev_items) :
          prev_items[i + 1].active => item_nodes[i + 1].rate # prev_items[i + 1].rate

(* C34 *)
\* PowerModel.power_per_machine_mw for the machine classes of the catalog:
\* without a class the legacy table by machine name, else the class's
\* powerUsed, else 0.0
power_per_machine_mw(recipe) ==
    IF recipe.machine_class = ""
    THEN IF recipe.machine_name = "Assembler" THEN Num(15)
         ELSE IF recipe.machine_name = "Smelter" THEN Num(4)
         ELSE Zero
    ELSE IF recipe.machine_class = "Build_Smelter" THEN Num(4)
    ELSE IF recipe.machine_class = "Build_Refinery" THEN Num(30)
    ELSE IF recipe.machine_class = "Build_Assembler" THEN Num(15)
    ELSE Zero

\* "total += per_machine * recipe_node.machines" over the active recipe nodes
RECURSIVE PowerFrom(_, _, _)
PowerFrom(recipes, r, total) ==
    IF r > Len(recipes) THEN total
    ELSE PowerFrom(recipes, r + 1,
                   IF recipes[r].active
                   THEN Add(total, Mul(power_per_machine_mw(recipes[r].recipe),
                                       recipes[r].machines))
                   ELSE total)

total_power_mw(recipes) == PowerFrom(recipes, 1, Zero)

\* the sum, as a number, of the rates of the active item nodes of a name
RECURSIVE NameTotal(_, _, _)
NameTotal(items, name, i) ==
    IF i > Len(items) THEN Zero
    ELSE LET rest == NameTotal(items, name, i + 1)
             r == items[i].rate
         IN  IF items[i].active /\ items[i].name = name
             THEN Norm(r[1] * rest[2] + rest[1] * r[2], r[2] * rest[2])
             ELSE rest

\* the survivor and the dropped ids of the merge that has just returned
Survivor == call.item_node_ids[1]
Dropped == MergedIds \ {Survivor}

\* what a successful merge_leaves leaves alone
MergeFrame ==
    /\ Len(item_nodes) = Len(prev_items)
    /\ Len(recipe_nodes) = Len(prev_recipes)
    /\ \A r \in 1..Len(prev_recipes) :
          /\ recipe_nodes[r] = [prev_recipes[r] EXCEPT !.in_ids = recipe_nodes[r].in_ids]
          /\ Len(recipe_nodes[r].in_ids) = Len(prev_recipes[r].in_ids)
          /\ \A k \in 1..Len(prev_recipes[r].in_ids) :
                prev_recipes[r].in_ids[k] \notin Dropped =>
                   recipe_nodes[r].in_ids[k] = prev_recipes[r].in_ids[k]
    /\ \A i \in ItemIds(prev_items) :
          /\ item_nodes[i + 1].name = prev_items[i + 1].name
          /\ i # Survivor => item_nodes[i + 1].rate = prev_items[i + 1].rate
          /\ i \notin Dropped => item_nodes[i + 1].active = prev_items[i + 1].active
    /\ total_power_mw(recipe_nodes) = total_power_mw(prev_recipes)

MergedName == prev_items[Survivor + 1].name

\* the sum, as a number, of the pre-call rates of the merged nodes
MergedTotal ==
    NameTotal([i \in 1..Len(prev_items) |->
                  [prev_items[i] EXCEPT !.active = (i - 1) \in MergedIds]],
              MergedName, 1)

\* C34 as stated: a successful merge_leaves changes only in_ids entries
\* equal to a dropped id, the survivor's rate and the dropped nodes' flags,
\* and the sum of rates over the active item nodes of the merged name and
\* total_power_mw are the same before and after the call
C34_MergeKeepsTotals ==
    Did("merge", TRUE) =>
        /\ MergeFrame
        /\ NameTotal(item_nodes, MergedName, 1) = NameTotal(prev_items, MergedName, 1)

\* C34, amended: the same frame and the same total_power_mw; the sum of
\* rates over the active item nodes of the merged name is the same before
\* and after whenever the survivor's new rate, the floating-point sum of the
\* merged rates, is their sum without rounding
C34_MergeKeepsTotalsUpToRounding ==
    Did("merge", TRUE) =>
        /\ MergeFrame
        /\ item_nodes[Survivor + 1].rate = MergedTotal =>
              NameTotal(item_nodes, MergedName, 1) = NameTotal(prev_items, MergedName, 1)

\* a merge of two of three leaves of one name, fed to recipe nodes with
\* power, whose sum needs no rounding and leaves the total as it was
C34_Witness ==
    /\ Did("merge", TRUE)
    /\ item_nodes[Survivor + 1].rate = MergedTotal
    /\ NameTotal(item_nodes, MergedName, 1) = NameTotal(prev_items, MergedName, 1)
    /\ NameTotal(item_nodes, MergedName, 1) # item_nodes[Survivor + 1].rate
    /\ total_power_mw(recipe_nodes) # Zero
    /\ recipe_nodes # prev_recipes

(* C35 *)
\* the active items one recipe node away downstream of the items of S: the
\* outputs of the active recipe nodes that have an item of S as an input
Fed(S) ==
    {o \in ItemIds(item_nodes) :
        /\ item_nodes[o + 1].active
        /\ \E r \in RecipeIds(recipe_nodes) :
              /\ recipe_nodes[r + 1].active
              /\ o \in Range(recipe_nodes[r + 1].out_ids)
              /\ Range(recipe_nodes[r + 1].in_ids) \cap S # {}}

\* every item reached from S along input -> recipe node -> output edges
RECURSIVE Downstream(_)
Downstream(S) ==
    LET T == S \cup Fed(S) IN IF T = S THEN S ELSE Downstream(T)

\* C35: in every state reached from an initial graph without recipe nodes
\* through expand, scale_connected_component and merge_leaves, the directed
\* graph over the active nodes with edges input item -> recipe node ->
\* output item has no directed cycle: no active item lies downstream of
\* itself
C35_NoDirectedCycle ==
    \A i \in ItemIds(item_nodes) :
        item_nodes[i + 1].active => i \notin Downstream(Fed({i}))

\* a merge of two items of one name, one of them downstream of the other
\* along a chain of three recipe nodes, has just been refused
C35_Witness ==
    /\ Did("merge", FALSE)
    /\ Len(call.item_node_ids) = 2
    /\ \E a \in ItemIds(item_nodes), b \in ItemIds(item_nodes) :
          /\ call.item_node_ids = <<a, b>>
          /\ a # b
          /\ item_nodes[a + 1].active /\ item_nodes[b + 1].active
          /\ item_nodes[a + 1].name = item_nodes[b + 1].name
          /\ b \in Downstream(Fed({a}))
          /\ NowConsumers(a) # {} /\ NowConsumers(b) # {}
    /\ Len(recipe_nodes) = 3

(* C36 *)
\* the graph scale_connected_component(i, target) leaves behind
ScaledGraph(items, recipes, i, target) ==
    LET res == scale_connected_component(items, recipes, i, target)
    IN  GenGraph(res.items, res.recipes)

\* the positive rates tried for the second scale: those handed to the first,
\* the rate the item had and the rate it has
SecondRates ==
    {b \in ScaleRates \cup {prev_items[call.item_node_id + 1].rate,
                            item_nodes[call.item_node_id + 1].rate} : RLt(Zero, b)}

\* C36: with exact arithmetic scale_connected_component composes: after a
\* successful scale(i, a), a further scale(i, b) leaves the graph that
\* scale(i, b) alone would have left; scale(i, r) with r the current rate of
\* i changes no rate and no machine count; and scaling back to the rate i
\* had before restores the graph as it was
C36_ScaleComposes ==
    /\ \A j \in ItemIds(item_nodes) :
          (item_nodes[j + 1].active /\ RLt(Zero, item_nodes[j + 1].rate)) =>
             ScaledGraph(item_nodes, recipe_nodes, j, item_nodes[j + 1].rate)
                = GenGraph(item_nodes, recipe_nodes)
    /\ Did("scale", TRUE) =>
          LET i == call.item_node_id IN
          /\ \A b \in SecondRates :
                ScaledGraph(item_nodes, recipe_nodes, i, b)
                   = ScaledGraph(prev_items, prev_recipes, i, b)
          /\ ScaledGraph(item_nodes, recipe_nodes, i, prev_items[i + 1].rate)
                = GenGraph(prev_items, prev_recipes)

\* a scale by a factor other than one of a component with recipe nodes and
\* a merged leaf, over exact rationals, undone by scaling back
C36_Witness ==
    /\ arith = "exact"
    /\ Did("scale", TRUE)
    /\ CallFactor # Num(1)
    /\ ~IsFloat(item_nodes[call.item_node_id + 1].rate)
         \/ \E i \in ItemIds(item_nodes) : item_nodes[i + 1].rate[2] = 3
    /\ Len(recipe_nodes) > 1
    /\ recipe_nodes # prev_recipes
    /\ ScaledGraph(item_nodes, recipe_nodes, call.item_node_id,
                   prev_items[call.item_node_id + 1].rate)
          = GenGraph(prev_items, prev_recipes)

(* C37 *)
\* the graph merge_leaves(ids) leaves behind, and whether it succeeded
MergedGraph(items, recipes, ids) ==
    LET res == merge_leaves(items, recipes, ids)
    IN  [ok |-> res.ok, graph |-> GenGraph(res.items, res.recipes)]

\* merge_leaves([a, b]) followed by merge_leaves([a, c])
MergedInTwoSteps(a, b, c) ==
    LET first == MergedGraph(prev_items, prev_recipes, <<a, b>>)
        second == MergedGraph(first.graph.item_nodes, first.graph.recipe_nodes, <<a, c>>)
    IN  [ok |-> first.ok /\ second.ok, graph |-> second.graph]

AllNodes(items, recipes) ==
    ({"item"} \X ItemIds(items)) \cup ({"recipe"} \X RecipeIds(recipes))

\* the traversal from j came to an end with every node enqueued at most
\* once, and these are the nodes it marked visited
EnqueuedOnce(items, recipes, j) ==
    LET c == Component(items, recipes, j) IN
    /\ c.queue = <<>>
    /\ \A k \in 1..Len(c.enqueued), l \in 1..Len(c.enqueued) :
          c.enqueued[k] = c.enqueued[l] => k = l
    /\ Range(c.enqueued) \subseteq AllNodes(items, recipes)
    /\ Range(c.enqueued)
          = ({"item"} \X c.visited_items) \cup ({"recipe"} \X c.visited_recipes)

\* C38: the breadth-first traversal of scale_connected_component comes to an
\* end from every valid item of every reachable graph, among them graphs in
\* which a merge made a recipe node list one item id several times: each
\* item node and each recipe node is enqueued at most once, and a successful
\* call multiplies each visited node by the factor exactly once and no other
\* node
C38_TraversalVisitsOnce ==
    /\ \A j \in ItemIds(item_nodes) :
          is_valid_item(item_nodes, j) => EnqueuedOnce(item_nodes, recipe_nodes, j)
    /\ Did("scale", TRUE) =>
          LET c == Component(prev_items, prev_recipes, call.item_node_id) IN
          /\ \A i \in ItemIds(prev_items) :
                item_nodes[i + 1].rate =
                   IF i \in c.visited_items
                   THEN Mul(prev_items[i + 1].rate, CallFactor)
                   ELSE prev_items[i + 1].rate
          /\ \A r \in RecipeIds(prev_recipes) :
                recipe_nodes[r + 1].machines =
                   IF r \in c.visited_recipes
                   THEN Mul(prev_recipes[r + 1].machines, CallFactor)
                   ELSE prev_recipes[r + 1].machines

\* a scale by a factor other than one of a graph in which two item nodes
\* each feed the same two recipe nodes, an undirected cycle: the machines of
\* both recipe nodes were multiplied once, not twice
C38_Witness ==
    /\ Did("scale", TRUE)
    /\ CallFactor # Num(1)
    /\ \E x \in ItemIds(prev_items), y \in ItemIds(prev_items) :
          /\ x # y
          /\ prev_items[x + 1].active /\ prev_items[y + 1].active
          /\ \E r \in RecipeIds(prev_recipes), q \in RecipeIds(prev_recipes) :
                /\ r # q
                /\ {x, y} \subseteq Range(prev_recipes[r + 1].in_ids)
                /\ {x, y} \subseteq Range(prev_recipes[q + 1].in_ids)
                /\ \A n \in {r, q} :
                      /\ recipe_nodes[n + 1].machines
                            = Mul(prev_recipes[n + 1].machines, CallFactor)
                      /\ recipe_nodes[n + 1].machines
                            # Mul(Mul(prev_recipes[n + 1].machines, CallFactor), CallFactor)

====
